---- MODULE Spec2Model ----
(***************************************************************************)
(* libvss-types: the Value variant and its tag (value.hpp, value.cpp), the *)
(* qualified values (quality.hpp, quality.cpp) and the struct registry and *)
(* validator (struct.hpp, struct.cpp).                                     *)
(*                                                                         *)
(* Integers are kept at their machine width.  A payload of an integer      *)
(* alternative is its two's complement bit pattern, a little-endian tuple  *)
(* of 16-bit limbs: one limb for int8_t/uint8_t (below 256) and for        *)
(* int16_t/uint16_t, two for the 32-bit and four for the 64-bit types.     *)
(***************************************************************************)
EXTENDS Integers, Sequences, FiniteSets, TLC

VARIABLES
    value,          \* convert_value_type: argument `value`
    target_type,    \* convert_value_type / convert_qualified_value_type: argument
    converted,      \* convert_value_type: the returned Value
    qvalue,         \* convert_qualified_value_type: argument `qvalue`
    qconverted,     \* convert_qualified_value_type: the returned value
    tagA,           \* are_types_compatible: a first tag
    tagB,           \* are_types_compatible: a second tag
    tagC,           \* are_types_compatible: a third tag
    compatible,     \* are_types_compatible: what it returned for the pairs
    structs_,       \* StructRegistry::structs_: type name -> StructDefinition
    heap,           \* the StructValue objects, by handle (shared_ptr target)
    call,           \* the last call on the registry or the validator, its result
    T,              \* qualified_value_changed_beyond_threshold: the type T
    old_val,        \* qualified_value_changed_beyond_threshold: old_val
    new_val,        \* qualified_value_changed_beyond_threshold: new_val
    threshold,      \* qualified_value_changed_beyond_threshold: threshold
    changed,        \* qualified_value_changed_beyond_threshold: what it returned
    str,            \* value_type_from_string: argument `str`, as characters
    parsed,         \* value_type_from_string: what it returned
    now,            \* age: the reading of std::chrono::system_clock::now()
    aged,           \* age: what it returned
    pc              \* which call has returned

convVars == <<value, target_type, converted, qvalue, qconverted>>
compatVars == <<tagA, tagB, tagC, compatible>>
structVars == <<structs_, heap, call>>
thrVars == <<T, old_val, new_val, threshold, changed>>
tagVars == <<str, parsed>>
clockVars == <<now, aged>>
vars == <<convVars, compatVars, structVars, thrVars, tagVars, clockVars, pc>>

(***************************************************************************)
(* Bounds of the model.                                                    *)
(***************************************************************************)
\* longest array payload enumerated
MaxLen == 2
\* timestamps are drawn from 0..MaxTime
MaxTime == 1

(***************************************************************************)
(* 16-bit limbs.                                                           *)
(***************************************************************************)
LimbMax == 2^16 - 1

\* bitwise complement of every limb
Inv(l) == [i \in DOMAIN l |-> LimbMax - l[i]]

\* l + 1 modulo 2^(16 * Len(l))
RECURSIVE Inc(_)
Inc(l) ==
    IF l = <<>> THEN <<>>
    ELSE IF Head(l) = LimbMax THEN <<0>> \o Inc(Tail(l))
    ELSE <<Head(l) + 1>> \o Tail(l)

\* two's complement negation at the width of l
Neg(l) == Inc(Inv(l))

\* the first n limbs of l, l padded with limb p when it is shorter
Resize(l, n, p) == [i \in 1..n |-> IF i <= Len(l) THEN l[i] ELSE p]

\* unsigned comparison of two patterns of the same width, top limb first
RECURSIVE ULt(_, _)
ULt(a, b) ==
    IF a = <<>> THEN FALSE
    ELSE IF a[Len(a)] # b[Len(b)] THEN a[Len(a)] < b[Len(b)]
    ELSE ULt(SubSeq(a, 1, Len(a) - 1), SubSeq(b, 1, Len(b) - 1))

\* the sign bit of a pattern whose top limb holds `top` values (256 or 65536)
SignBit(l, top) == l[Len(l)] >= top \div 2

\* signed comparison of two 64-bit patterns
SLt(a, b) ==
    IF SignBit(a, 65536) # SignBit(b, 65536) THEN SignBit(a, 65536)
    ELSE ULt(a, b)

(***************************************************************************)
(* The alternatives of the Value variant and the ValueType tags.           *)
(***************************************************************************)
SignedAlts == {"int8_t", "int16_t", "int32_t", "int64_t"}
UnsignedAlts == {"uint8_t", "uint16_t", "uint32_t", "uint64_t"}
IntAlts == SignedAlts \cup UnsignedAlts
ScalarAlts == IntAlts \cup {"bool", "float", "double", "string"}
VecAlt(a) == "vector<" \o a \o ">"
SignedVecAlts == {VecAlt(a) : a \in SignedAlts}
UnsignedVecAlts == {VecAlt(a) : a \in UnsignedAlts}
StructAlt == "shared_ptr<StructValue>"
StructVecAlt == "vector<shared_ptr<StructValue>>"
Alternatives ==
    {"monostate"} \cup ScalarAlts \cup {VecAlt(a) : a \in ScalarAlts}
        \cup {StructAlt, StructVecAlt}

ValueType ==
    {"UNSPECIFIED", "STRING", "BOOL", "INT8", "INT16", "INT32", "INT64",
     "UINT8", "UINT16", "UINT32", "UINT64", "FLOAT", "DOUBLE",
     "STRING_ARRAY", "BOOL_ARRAY", "INT8_ARRAY", "INT16_ARRAY", "INT32_ARRAY",
     "INT64_ARRAY", "UINT8_ARRAY", "UINT16_ARRAY", "UINT32_ARRAY",
     "UINT64_ARRAY", "FLOAT_ARRAY", "DOUBLE_ARRAY", "STRUCT", "STRUCT_ARRAY"}

\* a Value: the active alternative and its payload
Val(a, p) == [alt |-> a, val |-> p]
Monostate == Val("monostate", <<>>)

\* limbs of an integer alternative, and the values its top limb takes
Limbs(a) ==
    CASE a \in {"int8_t", "uint8_t", "int16_t", "uint16_t"} -> 1
      [] a \in {"int32_t", "uint32_t"} -> 2
      [] a \in {"int64_t", "uint64_t"} -> 4
TopRange(a) == IF a \in {"int8_t", "uint8_t"} THEN 256 ELSE 65536

get_value_type(v) ==
    CASE v.alt = "monostate" -> "UNSPECIFIED"
      [] v.alt = "bool" -> "BOOL"
      [] v.alt = "int8_t" -> "INT8"
      [] v.alt = "int16_t" -> "INT16"
      [] v.alt = "int32_t" -> "INT32"
      [] v.alt = "int64_t" -> "INT64"
      [] v.alt = "uint8_t" -> "UINT8"
      [] v.alt = "uint16_t" -> "UINT16"
      [] v.alt = "uint32_t" -> "UINT32"
      [] v.alt = "uint64_t" -> "UINT64"
      [] v.alt = "float" -> "FLOAT"
      [] v.alt = "double" -> "DOUBLE"
      [] v.alt = "string" -> "STRING"
      [] v.alt = "vector<bool>" -> "BOOL_ARRAY"
      [] v.alt = "vector<int8_t>" -> "INT8_ARRAY"
      [] v.alt = "vector<int16_t>" -> "INT16_ARRAY"
      [] v.alt = "vector<int32_t>" -> "INT32_ARRAY"
      [] v.alt = "vector<int64_t>" -> "INT64_ARRAY"
      [] v.alt = "vector<uint8_t>" -> "UINT8_ARRAY"
      [] v.alt = "vector<uint16_t>" -> "UINT16_ARRAY"
      [] v.alt = "vector<uint32_t>" -> "UINT32_ARRAY"
      [] v.alt = "vector<uint64_t>" -> "UINT64_ARRAY"
      [] v.alt = "vector<float>" -> "FLOAT_ARRAY"
      [] v.alt = "vector<double>" -> "DOUBLE_ARRAY"
      [] v.alt = "vector<string>" -> "STRING_ARRAY"
      [] v.alt = StructAlt -> "STRUCT"
      [] v.alt = StructVecAlt -> "STRUCT_ARRAY"
      [] OTHER -> "UNSPECIFIED"

is_empty(v) == v.alt = "monostate"

(***************************************************************************)
(* are_types_compatible (value.cpp).                                       *)
(***************************************************************************)
\* are_types_compatible with the signed family taking in the unsigned tags
are_types_compatible_MixesSigns(expected, actual) ==
    IF expected = actual THEN TRUE
    ELSE IF expected = "UNSPECIFIED" \/ actual = "UNSPECIFIED" THEN TRUE
    ELSE IF \/ (expected = "FLOAT" /\ actual = "DOUBLE")
            \/ (expected = "DOUBLE" /\ actual = "FLOAT") THEN TRUE
    ELSE IF /\ expected \in {"INT8", "INT16", "INT32", "INT64",
                             "UINT8", "UINT16", "UINT32", "UINT64"}
            /\ actual \in {"INT8", "INT16", "INT32", "INT64",
                           "UINT8", "UINT16", "UINT32", "UINT64"} THEN TRUE
    ELSE IF \/ (expected = "FLOAT_ARRAY" /\ actual = "DOUBLE_ARRAY")
            \/ (expected = "DOUBLE_ARRAY" /\ actual = "FLOAT_ARRAY") THEN TRUE
    ELSE IF /\ expected \in {"INT8_ARRAY", "INT16_ARRAY", "INT32_ARRAY", "INT64_ARRAY"}
            /\ actual \in {"INT8_ARRAY", "INT16_ARRAY", "INT32_ARRAY", "INT64_ARRAY"}
         THEN TRUE
    ELSE IF /\ expected \in {"UINT8_ARRAY", "UINT16_ARRAY", "UINT32_ARRAY", "UINT64_ARRAY"}
            /\ actual \in {"UINT8_ARRAY", "UINT16_ARRAY", "UINT32_ARRAY", "UINT64_ARRAY"}
         THEN TRUE
    ELSE FALSE

\* are_types_compatible accepting a double for a float but not a float for a
\* double
are_types_compatible_OneWayFloat(expected, actual) ==
    IF expected = actual THEN TRUE
    ELSE IF expected = "UNSPECIFIED" \/ actual = "UNSPECIFIED" THEN TRUE
    ELSE IF expected = "FLOAT" /\ actual = "DOUBLE" THEN TRUE
    ELSE IF /\ expected \in {"INT8", "INT16", "INT32", "INT64"}
            /\ actual \in {"INT8", "INT16", "INT32", "INT64"} THEN TRUE
    ELSE IF /\ expected \in {"UINT8", "UINT16", "UINT32", "UINT64"}
            /\ actual \in {"UINT8", "UINT16", "UINT32", "UINT64"} THEN TRUE
    ELSE IF \/ (expected = "FLOAT_ARRAY" /\ actual = "DOUBLE_ARRAY")
            \/ (expected = "DOUBLE_ARRAY" /\ actual = "FLOAT_ARRAY") THEN TRUE
    ELSE IF /\ expected \in {"INT8_ARRAY", "INT16_ARRAY", "INT32_ARRAY", "INT64_ARRAY"}
            /\ actual \in {"INT8_ARRAY", "INT16_ARRAY", "INT32_ARRAY", "INT64_ARRAY"}
         THEN TRUE
    ELSE IF /\ expected \in {"UINT8_ARRAY", "UINT16_ARRAY", "UINT32_ARRAY", "UINT64_ARRAY"}
            /\ actual \in {"UINT8_ARRAY", "UINT16_ARRAY", "UINT32_ARRAY", "UINT64_ARRAY"}
         THEN TRUE
    ELSE FALSE

are_types_compatible(expected, actual) ==
    IF expected = actual THEN TRUE
    ELSE IF expected = "UNSPECIFIED" \/ actual = "UNSPECIFIED" THEN TRUE
    \* Floating point compatibility: float <-> double
    ELSE IF \/ (expected = "FLOAT" /\ actual = "DOUBLE")
            \/ (expected = "DOUBLE" /\ actual = "FLOAT") THEN TRUE
    \* Signed integer compatibility
    ELSE IF /\ expected \in {"INT8", "INT16", "INT32", "INT64"}
            /\ actual \in {"INT8", "INT16", "INT32", "INT64"} THEN TRUE
    \* Unsigned integer compatibility
    ELSE IF /\ expected \in {"UINT8", "UINT16", "UINT32", "UINT64"}
            /\ actual \in {"UINT8", "UINT16", "UINT32", "UINT64"} THEN TRUE
    \* Floating point array compatibility
    ELSE IF \/ (expected = "FLOAT_ARRAY" /\ actual = "DOUBLE_ARRAY")
            \/ (expected = "DOUBLE_ARRAY" /\ actual = "FLOAT_ARRAY") THEN TRUE
    \* Signed integer array compatibility
    ELSE IF /\ expected \in {"INT8_ARRAY", "INT16_ARRAY", "INT32_ARRAY", "INT64_ARRAY"}
            /\ actual \in {"INT8_ARRAY", "INT16_ARRAY", "INT32_ARRAY", "INT64_ARRAY"}
         THEN TRUE
    \* Unsigned integer array compatibility
    ELSE IF /\ expected \in {"UINT8_ARRAY", "UINT16_ARRAY", "UINT32_ARRAY", "UINT64_ARRAY"}
            /\ actual \in {"UINT8_ARRAY", "UINT16_ARRAY", "UINT32_ARRAY", "UINT64_ARRAY"}
         THEN TRUE
    ELSE FALSE

(***************************************************************************)
(* Integer casts and the <cstdint> limits, as 64-bit patterns.             *)
(***************************************************************************)
\* static_cast<int64_t>(val): sign extension of a signed payload
CastToInt64(a, l) ==
    IF SignBit(l, TopRange(a))
    THEN Resize([l EXCEPT ![Len(l)] = @ + (65536 - TopRange(a))], 4, LimbMax)
    ELSE Resize(l, 4, 0)

\* static_cast<uint64_t>(val): zero extension of an unsigned payload
CastToUint64(a, l) == Resize(l, 4, 0)

\* static_cast<T>(wide_val) for an integer alternative T: the low bits are kept
CastFromWide(a, wide) ==
    IF TopRange(a) = 256 THEN <<wide[1] % 256>> ELSE Resize(wide, Limbs(a), 0)

INT8_MIN == <<65408, 65535, 65535, 65535>>
INT8_MAX == <<127, 0, 0, 0>>
INT16_MIN == <<32768, 65535, 65535, 65535>>
INT16_MAX == <<32767, 0, 0, 0>>
INT32_MIN == <<0, 32768, 65535, 65535>>
INT32_MAX == <<65535, 32767, 0, 0>>
UINT8_MAX == <<255, 0, 0, 0>>
UINT16_MAX == <<65535, 0, 0, 0>>
UINT32_MAX == <<65535, 65535, 0, 0>>

(***************************************************************************)
(* Floating point.  A double payload is an integer n on the double grid; a *)
(* float has one bit less: its payload k stands for the double 2 * k.      *)
(***************************************************************************)
\* static_cast<double>(float): exact
CastToDouble(k) == 2 * k

\* static_cast<float>(double): round to nearest, ties to even
CastToFloat(n) ==
    LET lo == n \div 2
    IN  IF n % 2 = 0 THEN lo
        ELSE IF lo % 2 = 0 THEN lo ELSE lo + 1

(***************************************************************************)
(* convert_value_type (value.cpp): the visitor's branches.                 *)
(***************************************************************************)
\* ConvertSigned with the INT16 case missing its lower bound
ConvertSigned_NoLowerBound(a, val, target) ==
    LET wide_val == CastToInt64(a, val)
    IN  CASE target = "INT8" ->
                IF SLt(wide_val, INT8_MIN) \/ SLt(INT8_MAX, wide_val)
                THEN Monostate
                ELSE Val("int8_t", CastFromWide("int8_t", wide_val))
          [] target = "INT16" ->
                IF SLt(INT16_MAX, wide_val)
                THEN Monostate
                ELSE Val("int16_t", CastFromWide("int16_t", wide_val))
          [] target = "INT32" ->
                IF SLt(wide_val, INT32_MIN) \/ SLt(INT32_MAX, wide_val)
                THEN Monostate
                ELSE Val("int32_t", CastFromWide("int32_t", wide_val))
          [] target = "INT64" -> Val("int64_t", wide_val)
          [] OTHER -> Monostate

\* Signed integer conversions: the switch on target_type
ConvertSigned(a, val, target) ==
    LET wide_val == CastToInt64(a, val)
    IN  CASE target = "INT8" ->
                IF SLt(wide_val, INT8_MIN) \/ SLt(INT8_MAX, wide_val)
                THEN Monostate
                ELSE Val("int8_t", CastFromWide("int8_t", wide_val))
          [] target = "INT16" ->
                IF SLt(wide_val, INT16_MIN) \/ SLt(INT16_MAX, wide_val)
                THEN Monostate
                ELSE Val("int16_t", CastFromWide("int16_t", wide_val))
          [] target = "INT32" ->
                IF SLt(wide_val, INT32_MIN) \/ SLt(INT32_MAX, wide_val)
                THEN Monostate
                ELSE Val("int32_t", CastFromWide("int32_t", wide_val))
          [] target = "INT64" -> Val("int64_t", wide_val)
          [] OTHER -> Monostate

\* ConvertUnsigned with the UINT16 case building the alternative of the UINT8 case
ConvertUnsigned_WrongAlternative(a, val, target) ==
    LET wide_val == CastToUint64(a, val)
    IN  CASE target = "UINT8" ->
                IF ULt(UINT8_MAX, wide_val)
                THEN Monostate
                ELSE Val("uint8_t", CastFromWide("uint8_t", wide_val))
          [] target = "UINT16" ->
                IF ULt(UINT8_MAX, wide_val)
                THEN Monostate
                ELSE Val("uint8_t", CastFromWide("uint8_t", wide_val))
          [] target = "UINT32" ->
                IF ULt(UINT32_MAX, wide_val)
                THEN Monostate
                ELSE Val("uint32_t", CastFromWide("uint32_t", wide_val))
          [] target = "UINT64" -> Val("uint64_t", wide_val)
          [] OTHER -> Monostate

\* Unsigned integer conversions: the switch on target_type
ConvertUnsigned(a, val, target) ==
    LET wide_val == CastToUint64(a, val)
    IN  CASE target = "UINT8" ->
                IF ULt(UINT8_MAX, wide_val)
                THEN Monostate
                ELSE Val("uint8_t", CastFromWide("uint8_t", wide_val))
          [] target = "UINT16" ->
                IF ULt(UINT16_MAX, wide_val)
                THEN Monostate
                ELSE Val("uint16_t", CastFromWide("uint16_t", wide_val))
          [] target = "UINT32" ->
                IF ULt(UINT32_MAX, wide_val)
                THEN Monostate
                ELSE Val("uint32_t", CastFromWide("uint32_t", wide_val))
          [] target = "UINT64" -> Val("uint64_t", wide_val)
          [] OTHER -> Monostate

\* SignedLoop skipping an element out of range instead of ending the call
RECURSIVE SignedLoop_SkipsElement(_, _, _, _, _, _, _)
SignedLoop_SkipsElement(ea, val, i, result, ta, lo, hi) ==
    IF i > Len(val) THEN Val(VecAlt(ta), result)
    ELSE LET wide == CastToInt64(ea, val[i])
         IN  IF SLt(wide, lo) \/ SLt(hi, wide)
             THEN SignedLoop_SkipsElement(ea, val, i + 1, result, ta, lo, hi)
             ELSE SignedLoop_SkipsElement(ea, val, i + 1,
                             Append(result, CastFromWide(ta, wide)), ta, lo, hi)

\* for (auto v : val) of a signed array case: range check, then push_back;
\* the first element out of [lo, hi] ends the call with the empty value
RECURSIVE SignedLoop(_, _, _, _, _, _, _)
SignedLoop(ea, val, i, result, ta, lo, hi) ==
    IF i > Len(val) THEN Val(VecAlt(ta), result)
    ELSE LET wide == CastToInt64(ea, val[i])
         IN  IF SLt(wide, lo) \/ SLt(hi, wide) THEN Monostate
             ELSE SignedLoop(ea, val, i + 1,
                             Append(result, CastFromWide(ta, wide)), ta, lo, hi)

\* Array conversions - signed integers (ea: the element alternative of val)
ConvertSignedArray(ea, val, target) ==
    CASE target = "INT8_ARRAY" ->
            SignedLoop(ea, val, 1, <<>>, "int8_t", INT8_MIN, INT8_MAX)
      [] target = "INT16_ARRAY" ->
            SignedLoop(ea, val, 1, <<>>, "int16_t", INT16_MIN, INT16_MAX)
      [] target = "INT32_ARRAY" ->
            SignedLoop(ea, val, 1, <<>>, "int32_t", INT32_MIN, INT32_MAX)
      [] target = "INT64_ARRAY" ->
            Val("vector<int64_t>", [i \in 1..Len(val) |-> CastToInt64(ea, val[i])])
      [] OTHER -> Monostate

\* for (auto v : val) of an unsigned array case
RECURSIVE UnsignedLoop(_, _, _, _, _, _)
UnsignedLoop(ea, val, i, result, ta, hi) ==
    IF i > Len(val) THEN Val(VecAlt(ta), result)
    ELSE LET wide == CastToUint64(ea, val[i])
         IN  IF ULt(hi, wide) THEN Monostate
             ELSE UnsignedLoop(ea, val, i + 1,
                               Append(result, CastFromWide(ta, wide)), ta, hi)

\* Array conversions - unsigned integers
ConvertUnsignedArray(ea, val, target) ==
    CASE target = "UINT8_ARRAY" ->
            UnsignedLoop(ea, val, 1, <<>>, "uint8_t", UINT8_MAX)
      [] target = "UINT16_ARRAY" ->
            UnsignedLoop(ea, val, 1, <<>>, "uint16_t", UINT16_MAX)
      [] target = "UINT32_ARRAY" ->
            UnsignedLoop(ea, val, 1, <<>>, "uint32_t", UINT32_MAX)
      [] target = "UINT64_ARRAY" ->
            Val("vector<uint64_t>", [i \in 1..Len(val) |-> CastToUint64(ea, val[i])])
      [] OTHER -> Monostate

\* the element alternative of a vector alternative
ElemAlt(va) == CHOOSE a \in ScalarAlts : VecAlt(a) = va

\* std::visit over the active alternative
ConvertVisit(v, target) ==
    CASE v.alt = "monostate" -> Monostate
      [] v.alt \in SignedAlts -> ConvertSigned(v.alt, v.val, target)
      [] v.alt \in UnsignedAlts -> ConvertUnsigned(v.alt, v.val, target)
      [] v.alt = "float" ->
            IF target = "DOUBLE" THEN Val("double", CastToDouble(v.val))
            ELSE Monostate
      [] v.alt = "double" ->
            IF target = "FLOAT" THEN Val("float", CastToFloat(v.val))
            ELSE Monostate
      [] v.alt \in SignedVecAlts -> ConvertSignedArray(ElemAlt(v.alt), v.val, target)
      [] v.alt \in UnsignedVecAlts -> ConvertUnsignedArray(ElemAlt(v.alt), v.val, target)
      [] v.alt = "vector<float>" ->
            IF target = "DOUBLE_ARRAY"
            THEN Val("vector<double>", [i \in 1..Len(v.val) |-> CastToDouble(v.val[i])])
            ELSE Monostate
      [] v.alt = "vector<double>" ->
            IF target = "FLOAT_ARRAY"
            THEN Val("vector<float>", [i \in 1..Len(v.val) |-> CastToFloat(v.val[i])])
            ELSE Monostate
      \* No conversion available
      [] OTHER -> Monostate

\* convert_value_type without the return for a value already of the target type
convert_value_type_NoShortcut(v, target) ==
    LET current_type == get_value_type(v)
    IN  IF current_type = "UNSPECIFIED" THEN v
        ELSE IF ~are_types_compatible(target, current_type) THEN Monostate
        ELSE ConvertVisit(v, target)

\* convert_value_type handing the input back when the target is UNSPECIFIED
convert_value_type_KeepsForUnspecified(v, target) ==
    LET current_type == get_value_type(v)
    IN  IF current_type = target THEN v
        ELSE IF current_type = "UNSPECIFIED" THEN v
        ELSE IF target = "UNSPECIFIED" THEN v
        ELSE IF ~are_types_compatible(target, current_type) THEN Monostate
        ELSE ConvertVisit(v, target)

\* convert_value_type handing the input back when the types are incompatible
convert_value_type_ReturnsInput(v, target) ==
    LET current_type == get_value_type(v)
    IN  IF current_type = target THEN v
        ELSE IF current_type = "UNSPECIFIED" THEN v
        ELSE IF ~are_types_compatible(target, current_type) THEN v
        ELSE ConvertVisit(v, target)

convert_value_type(v, target) ==
    LET current_type == get_value_type(v)
    IN  \* If already the right type, return unchanged
        IF current_type = target THEN v
        \* If empty, return empty
        ELSE IF current_type = "UNSPECIFIED" THEN v
        \* Check if types are compatible
        ELSE IF ~are_types_compatible(target, current_type) THEN Monostate
        ELSE ConvertVisit(v, target)

\* std::optional
Nullopt == [has_value |-> FALSE]
Some(x) == [has_value |-> TRUE, value |-> x]

(***************************************************************************)
(* DynamicQualifiedValue (quality.hpp) and its conversion (quality.cpp).   *)
(***************************************************************************)
SignalQuality == {"UNKNOWN", "VALID", "INVALID", "NOT_AVAILABLE"}

DynamicQualifiedValue(val, q, ts) == [value |-> val, quality |-> q, timestamp |-> ts]

\* convert_qualified_value_type converting whatever the quality is
convert_qualified_value_type_IgnoresQuality(qv, target) ==
    IF is_empty(qv.value) THEN qv
    ELSE LET conv == convert_value_type(qv.value, target)
         IN  IF is_empty(conv)
             THEN DynamicQualifiedValue(Monostate, "INVALID", qv.timestamp)
             ELSE DynamicQualifiedValue(conv, qv.quality, qv.timestamp)

\* convert_qualified_value_type keeping the quality when the conversion fails
convert_qualified_value_type_KeepsQuality(qv, target) ==
    IF qv.quality # "VALID" THEN qv
    ELSE IF is_empty(qv.value) THEN qv
    ELSE LET conv == convert_value_type(qv.value, target)
         IN  DynamicQualifiedValue(conv, qv.quality, qv.timestamp)

convert_qualified_value_type(qv, target) ==
    \* If quality is not VALID, don't attempt conversion
    IF qv.quality # "VALID" THEN qv
    \* If value is empty, return as-is
    ELSE IF is_empty(qv.value) THEN qv
    ELSE LET conv == convert_value_type(qv.value, target)
         IN  IF is_empty(conv)
             \* Conversion failed - return with INVALID quality
             THEN DynamicQualifiedValue(Monostate, "INVALID", qv.timestamp)
             \* Conversion succeeded - return with original quality preserved
             ELSE DynamicQualifiedValue(conv, qv.quality, qv.timestamp)

(***************************************************************************)
(* double, for the differences qualified_value_changed_beyond_threshold    *)
(* takes: a sign and an integer magnitude of five limbs that has at most   *)
(* 53 significant bits.  Conversions and subtractions round to the nearest *)
(* such magnitude, ties to the even one, as the FPU does.                  *)
(***************************************************************************)
Double(n, m) == [neg |-> n /\ m # <<0, 0, 0, 0, 0>>, mag |-> m]

\* a + b + carry and a - b - borrow on magnitudes of the same width
RECURSIVE AddLimbs(_, _, _)
AddLimbs(a, b, carry) ==
    IF a = <<>> THEN <<>>
    ELSE LET t == Head(a) + Head(b) + carry
         IN  <<t % (LimbMax + 1)>> \o AddLimbs(Tail(a), Tail(b), t \div (LimbMax + 1))

RECURSIVE SubLimbs(_, _, _)
SubLimbs(a, b, borrow) ==
    IF a = <<>> THEN <<>>
    ELSE LET t == Head(a) - Head(b) - borrow
         IN  IF t < 0 THEN <<t + LimbMax + 1>> \o SubLimbs(Tail(a), Tail(b), 1)
             ELSE <<t>> \o SubLimbs(Tail(a), Tail(b), 0)

\* the number of significant bits of a magnitude
BitLength(m) ==
    LET used == {i \in DOMAIN m : m[i] # 0}
    IN  IF used = {} THEN 0
        ELSE LET top == CHOOSE i \in used : \A j \in used : j <= i
             IN  16 * (top - 1)
                     + CHOOSE b \in 1..16 : 2^(b - 1) <= m[top] /\ m[top] < 2^b

\* the magnitude of 53 significant bits nearest to m (m below 2^68)
RoundToDouble(m) ==
    LET s == BitLength(m) - 53
    IN  IF s <= 0 THEN m
        ELSE LET unit == 2^s
                 r == m[1] % unit
                 down == [m EXCEPT ![1] = m[1] - r]
                 odd == (m[1] \div unit) % 2 = 1
             IN  IF r > unit \div 2 \/ (r = unit \div 2 /\ odd)
                 THEN AddLimbs(down, <<unit, 0, 0, 0, 0>>, 0)
                 ELSE down

\* static_cast<double>(x) for a payload x of type t
StaticCastDouble(t, x) ==
    CASE t \in SignedAlts ->
             LET wide == CastToInt64(t, x)
             IN  IF SignBit(wide, 65536)
                 THEN Double(TRUE, RoundToDouble(Resize(Neg(wide), 5, 0)))
                 ELSE Double(FALSE, RoundToDouble(Resize(wide, 5, 0)))
      [] t \in UnsignedAlts ->
             Double(FALSE, RoundToDouble(Resize(CastToUint64(t, x), 5, 0)))
      [] OTHER -> x

\* x - y, std::abs(x), x >= y, x > 0 on doubles
DoubleMinus(x, y) ==
    IF x.neg # y.neg THEN Double(x.neg, RoundToDouble(AddLimbs(x.mag, y.mag, 0)))
    ELSE IF ULt(x.mag, y.mag)
    THEN Double(~x.neg, RoundToDouble(SubLimbs(y.mag, x.mag, 0)))
    ELSE Double(x.neg, RoundToDouble(SubLimbs(x.mag, y.mag, 0)))
DoubleAbs(x) == Double(FALSE, x.mag)
DoubleGe(x, y) ==
    CASE x.neg /\ ~y.neg -> FALSE
      [] ~x.neg /\ y.neg -> TRUE
      [] x.neg /\ y.neg -> ~ULt(y.mag, x.mag)
      [] OTHER -> ~ULt(x.mag, y.mag)
DoublePositive(x) == ~x.neg /\ x.mag # <<0, 0, 0, 0, 0>>

(***************************************************************************)
(* QualifiedValue<T> and qualified_value_changed_beyond_threshold          *)
(* (quality.hpp).                                                          *)
(***************************************************************************)
QualifiedValue(val, q, ts) == [value |-> val, quality |-> q, timestamp |-> ts]

\* std::is_arithmetic_v<T>
is_arithmetic_v(t) == t \in IntAlts \cup {"bool", "float", "double"}

\* the numeric branch comparing with > instead of >=
qualified_value_changed_beyond_threshold_Exclusive(t, old, new, thr) ==
    IF old.quality # new.quality THEN TRUE
    ELSE IF ~old.value.has_value /\ ~new.value.has_value THEN FALSE
    ELSE IF old.value.has_value # new.value.has_value THEN TRUE
    ELSE IF is_arithmetic_v(t) /\ t # "bool" /\ DoublePositive(thr)
    THEN LET diff == DoubleAbs(DoubleMinus(StaticCastDouble(t, new.value.value),
                                           StaticCastDouble(t, old.value.value)))
         IN  diff # thr /\ DoubleGe(diff, thr)
    ELSE old.value.value # new.value.value

\* the numeric branch never taken: a threshold of zero or below reports nothing
qualified_value_changed_beyond_threshold_ZeroNever(t, old, new, thr) ==
    IF old.quality # new.quality THEN TRUE
    ELSE IF ~old.value.has_value /\ ~new.value.has_value THEN FALSE
    ELSE IF old.value.has_value # new.value.has_value THEN TRUE
    ELSE IF is_arithmetic_v(t) /\ t # "bool"
    THEN LET diff == DoubleAbs(DoubleMinus(StaticCastDouble(t, new.value.value),
                                           StaticCastDouble(t, old.value.value)))
         IN  DoublePositive(thr) /\ DoubleGe(diff, thr)
    ELSE old.value.value # new.value.value

qualified_value_changed_beyond_threshold(t, old, new, thr) ==
    \* Quality change always counts as a change
    IF old.quality # new.quality THEN TRUE
    \* If neither has value, no change
    ELSE IF ~old.value.has_value /\ ~new.value.has_value THEN FALSE
    \* If one has value and other doesn't, it's a change
    ELSE IF old.value.has_value # new.value.has_value THEN TRUE
    \* Numeric type with threshold
    ELSE IF is_arithmetic_v(t) /\ t # "bool" /\ DoublePositive(thr)
    THEN LET diff == DoubleAbs(DoubleMinus(StaticCastDouble(t, new.value.value),
                                           StaticCastDouble(t, old.value.value)))
         IN  DoubleGe(diff, thr)
    \* Non-numeric or zero threshold: exact comparison
    ELSE old.value.value # new.value.value

(***************************************************************************)
(* values_equal, to_double and value_changed_beyond_threshold are declared *)
(* in value.hpp and defined in no file of the source tree; they are taken  *)
(* from sections 4.3 and 4.4 of the specification.  The payload of a       *)
(* double is a Double here.                                                *)
(***************************************************************************)
values_equal(a, b) == a.alt = b.alt /\ a.val = b.val

to_double(v) ==
    CASE v.alt \in IntAlts -> StaticCastDouble(v.alt, v.val)
      [] v.alt = "double" -> v.val
      [] v.alt = "bool" ->
             Double(FALSE, <<IF v.val THEN 1 ELSE 0, 0, 0, 0, 0>>)
      [] OTHER -> Double(FALSE, <<0, 0, 0, 0, 0>>)

value_changed_beyond_threshold(old, new, thr) ==
    IF old.alt # new.alt THEN TRUE
    ELSE IF old.alt = "monostate" THEN FALSE
    ELSE IF old.alt \in IntAlts \cup {"double", "bool"} /\ DoublePositive(thr)
    THEN DoubleGe(DoubleAbs(DoubleMinus(to_double(new), to_double(old))), thr)
    ELSE ~values_equal(old, new)

\* dynamic_qualified_value_changed_beyond_threshold (quality.cpp)
dynamic_qualified_value_changed_beyond_threshold(old, new, thr) ==
    \* Quality change always counts as a change
    IF old.quality # new.quality THEN TRUE
    \* Delegate to value comparison with threshold
    ELSE value_changed_beyond_threshold(old.value, new.value, thr)

(***************************************************************************)
(* Mathematical integers, for stating what a payload holds: a sign and a   *)
(* magnitude of four limbs.  Zero is never negative.                       *)
(***************************************************************************)
MathInt(n, m) == [neg |-> n, mag |-> m]

\* two's complement negation at the width of an integer alternative
NegAt(a, l) == IF TopRange(a) = 256 THEN <<(256 - l[1]) % 256>> ELSE Neg(l)

\* the integer a payload of alternative a holds
MathOf(a, l) ==
    IF a \in SignedAlts /\ SignBit(l, TopRange(a))
    THEN MathInt(TRUE, Resize(NegAt(a, l), 4, 0))
    ELSE MathInt(FALSE, Resize(l, 4, 0))

\* the payload of alternative a that holds the integer x (x within a's range)
Encode(a, x) ==
    LET low == Resize(x.mag, Limbs(a), 0)
    IN  IF x.neg THEN NegAt(a, low) ELSE low

MagLt(m, n) == \E i \in 1..4 : m[i] < n[i] /\ \A j \in (i + 1)..4 : m[j] = n[j]

IntLt(x, y) ==
    CASE x.neg /\ ~y.neg -> TRUE
      [] ~x.neg /\ y.neg -> FALSE
      [] x.neg /\ y.neg -> MagLt(y.mag, x.mag)
      [] OTHER -> MagLt(x.mag, y.mag)

IntLe(x, y) == x = y \/ IntLt(x, y)

\* the range of each integer alternative
MinOf(a) ==
    CASE a = "int8_t" -> MathInt(TRUE, <<128, 0, 0, 0>>)
      [] a = "int16_t" -> MathInt(TRUE, <<32768, 0, 0, 0>>)
      [] a = "int32_t" -> MathInt(TRUE, <<0, 32768, 0, 0>>)
      [] a = "int64_t" -> MathInt(TRUE, <<0, 0, 0, 32768>>)
      [] OTHER -> MathInt(FALSE, <<0, 0, 0, 0>>)

MaxOf(a) ==
    CASE a = "int8_t" -> MathInt(FALSE, <<127, 0, 0, 0>>)
      [] a = "int16_t" -> MathInt(FALSE, <<32767, 0, 0, 0>>)
      [] a = "int32_t" -> MathInt(FALSE, <<65535, 32767, 0, 0>>)
      [] a = "int64_t" -> MathInt(FALSE, <<65535, 65535, 65535, 32767>>)
      [] a = "uint8_t" -> MathInt(FALSE, <<255, 0, 0, 0>>)
      [] a = "uint16_t" -> MathInt(FALSE, <<65535, 0, 0, 0>>)
      [] a = "uint32_t" -> MathInt(FALSE, <<65535, 65535, 0, 0>>)
      [] a = "uint64_t" -> MathInt(FALSE, <<65535, 65535, 65535, 65535>>)

InRange(a, x) == IntLe(MinOf(a), x) /\ IntLe(x, MaxOf(a))

(***************************************************************************)
(* The inputs enumerated: the integers at and next to every limit.         *)
(***************************************************************************)
Magnitudes ==
    {<<0, 0, 0, 0>>, <<1, 0, 0, 0>>,
     <<127, 0, 0, 0>>, <<128, 0, 0, 0>>, <<129, 0, 0, 0>>,          \* 2^7
     <<255, 0, 0, 0>>, <<256, 0, 0, 0>>,                             \* 2^8
     <<32767, 0, 0, 0>>, <<32768, 0, 0, 0>>, <<32769, 0, 0, 0>>,    \* 2^15
     <<65535, 0, 0, 0>>, <<0, 1, 0, 0>>,                             \* 2^16
     <<65535, 32767, 0, 0>>, <<0, 32768, 0, 0>>, <<1, 32768, 0, 0>>, \* 2^31
     <<65535, 65535, 0, 0>>, <<0, 0, 1, 0>>, <<5, 0, 1, 0>>,        \* 2^32
     <<65535, 65535, 65535, 32767>>, <<0, 0, 0, 32768>>,             \* 2^63
     <<65535, 65535, 65535, 65535>>}                                 \* 2^64 - 1

IntSamples ==
    {MathInt(FALSE, m) : m \in Magnitudes}
        \cup {MathInt(TRUE, m) : m \in Magnitudes \ {<<0, 0, 0, 0>>}}

ScalarInts(a) == {Encode(a, x) : x \in {y \in IntSamples : InRange(a, y)}}

\* the elements of the arrays enumerated: fewer, so that the arrays stay few
ArrayMagnitudes ==
    {<<0, 0, 0, 0>>, <<127, 0, 0, 0>>, <<128, 0, 0, 0>>, <<129, 0, 0, 0>>,
     <<255, 0, 0, 0>>, <<256, 0, 0, 0>>, <<0, 1, 0, 0>>, <<0, 0, 1, 0>>}

ArrayInts(a) ==
    {Encode(a, x) :
        x \in {y \in IntSamples : y.mag \in ArrayMagnitudes /\ InRange(a, y)}}

SeqsUpTo(S, n) == UNION {[1..k -> S] : k \in 0..n}

\* struct handles: 0 is the null shared_ptr
HandleSamples == {0, 1}

ScalarSamples(a) ==
    CASE a \in IntAlts -> ScalarInts(a)
      [] a = "bool" -> BOOLEAN
      [] a = "float" -> {-1, 0, 1}
      [] a = "double" -> {-1, 0, 1, 2, 3}
      [] a = "string" -> {"", "a"}

ElemSamples(a) ==
    CASE a \in IntAlts -> ArrayInts(a)
      [] a = "bool" -> BOOLEAN
      [] a = "float" -> {0, 1}
      [] a = "double" -> {1, 2, 3}
      [] a = "string" -> {"", "a"}

ValueSamples(n) ==
    {Monostate}
        \cup UNION {{Val(a, p) : p \in ScalarSamples(a)} : a \in ScalarAlts}
        \cup UNION {{Val(VecAlt(a), p) : p \in SeqsUpTo(ElemSamples(a), n)} :
                        a \in ScalarAlts}
        \cup {Val(StructAlt, h) : h \in HandleSamples}
        \cup {Val(StructVecAlt, p) : p \in SeqsUpTo(HandleSamples, n)}

NoValue == Monostate
NoQualified == DynamicQualifiedValue(Monostate, "UNKNOWN", 0)

(***************************************************************************)
(* Spec: one call of convert_value_type on every input enumerated.         *)
(***************************************************************************)
NoCompat == [ab |-> FALSE, ba |-> FALSE, bc |-> FALSE, ac |-> FALSE]

\* the variables of the other specifications, at rest
IdleConv ==
    /\ value = NoValue /\ target_type = "UNSPECIFIED" /\ converted = NoValue
    /\ qvalue = NoQualified /\ qconverted = NoQualified
IdleCompat ==
    /\ tagA = "UNSPECIFIED" /\ tagB = "UNSPECIFIED"
    /\ tagC = "UNSPECIFIED" /\ compatible = NoCompat
IdleStruct == structs_ = <<>> /\ heap = <<>> /\ call = [op |-> "none"]
NoTyped == QualifiedValue(Nullopt, "UNKNOWN", 0)
IdleThreshold ==
    /\ T = "bool" /\ old_val = NoTyped /\ new_val = NoTyped
    /\ threshold = Double(FALSE, <<0, 0, 0, 0, 0>>) /\ changed = FALSE
IdleTags == str = <<>> /\ parsed = Nullopt
IdleClock == now = 0 /\ aged = 0

Init ==
    /\ value \in ValueSamples(MaxLen)
    /\ target_type \in ValueType
    /\ converted = NoValue
    /\ qvalue = NoQualified
    /\ qconverted = NoQualified
    /\ IdleCompat
    /\ IdleStruct
    /\ IdleThreshold
    /\ IdleTags
    /\ IdleClock
    /\ pc = "start"

ConvertValueType ==
    /\ pc = "start"
    /\ converted' = convert_value_type(value, target_type)
    /\ pc' = "convert_value_type"
    /\ UNCHANGED <<value, target_type, qvalue, qconverted, compatVars, structVars, thrVars, tagVars, clockVars>>
Next == ConvertValueType

Spec == Init /\ [][Next]_vars

(***************************************************************************)
(* Claims about convert_value_type.                                        *)
(***************************************************************************)
\* the scalar alternative a tag names
AltOfTag(t) ==
    CASE t = "INT8" -> "int8_t" [] t = "INT16" -> "int16_t"
      [] t = "INT32" -> "int32_t" [] t = "INT64" -> "int64_t"
      [] t = "UINT8" -> "uint8_t" [] t = "UINT16" -> "uint16_t"
      [] t = "UINT32" -> "uint32_t" [] t = "UINT64" -> "uint64_t"
      [] t = "INT8_ARRAY" -> "int8_t" [] t = "INT16_ARRAY" -> "int16_t"
      [] t = "INT32_ARRAY" -> "int32_t" [] t = "INT64_ARRAY" -> "int64_t"
      [] t = "UINT8_ARRAY" -> "uint8_t" [] t = "UINT16_ARRAY" -> "uint16_t"
      [] t = "UINT32_ARRAY" -> "uint32_t" [] t = "UINT64_ARRAY" -> "uint64_t"

SignedTags == {"INT8", "INT16", "INT32", "INT64"}
UnsignedTags == {"UINT8", "UINT16", "UINT32", "UINT64"}
FloatTags == {"FLOAT", "DOUBLE"}
SignedArrayTags == {"INT8_ARRAY", "INT16_ARRAY", "INT32_ARRAY", "INT64_ARRAY"}
UnsignedArrayTags == {"UINT8_ARRAY", "UINT16_ARRAY", "UINT32_ARRAY", "UINT64_ARRAY"}
FloatArrayTags == {"FLOAT_ARRAY", "DOUBLE_ARRAY"}
NumericFamilies ==
    {SignedTags, UnsignedTags, FloatTags,
     SignedArrayTags, UnsignedArrayTags, FloatArrayTags}

\* the family of a tag: its numeric family, or the tag alone
FamilyOf(t) ==
    IF \E F \in NumericFamilies : t \in F
    THEN CHOOSE F \in NumericFamilies : t \in F
    ELSE {t}

Returned == pc = "convert_value_type"

\* C1: the value convert_value_type returns has the tag target_type or the
\* tag UNSPECIFIED, whatever the value and the target.
C1_ConversionSafety ==
    Returned => get_value_type(converted) \in {target_type, "UNSPECIFIED"}

\* a uint64_t narrowed to UINT16 came back tagged UINT16
C1_Witness ==
    /\ Returned
    /\ value.alt = "uint64_t"
    /\ target_type = "UINT16"
    /\ get_value_type(converted) = "UINT16"

\* C2: an integer scalar holding x, converted to another tag T of its
\* signedness family, comes back as a T holding exactly x when x is within
\* T's range, and as the empty value otherwise.
C2_IntegerScalarRangeChecked ==
    (/\ Returned
     /\ value.alt \in IntAlts
     /\ target_type \in SignedTags \cup UnsignedTags
     /\ (value.alt \in SignedAlts) = (target_type \in SignedTags)
     /\ AltOfTag(target_type) # value.alt)
    => LET x == MathOf(value.alt, value.val)
           ta == AltOfTag(target_type)
       IN  IF InRange(ta, x)
           THEN converted = Val(ta, Encode(ta, x))
           ELSE converted = Monostate

\* -32768 held in an int64_t was narrowed to an int16_t holding -32768
C2_Witness ==
    /\ Returned
    /\ value = Val("int64_t", <<32768, 65535, 65535, 65535>>)
    /\ target_type = "INT16"
    /\ converted = Val("int16_t", <<32768>>)

\* C3: an integer array converted to another array tag of its signedness
\* family comes back with the same length and the same elements in order when
\* all of them are within the target element range, and as the empty value
\* when one is not.
C3_ArrayAllOrNothing ==
    (/\ Returned
     /\ value.alt \in SignedVecAlts \cup UnsignedVecAlts
     /\ target_type \in SignedArrayTags \cup UnsignedArrayTags
     /\ (value.alt \in SignedVecAlts) = (target_type \in SignedArrayTags)
     /\ VecAlt(AltOfTag(target_type)) # value.alt)
    => LET ea == ElemAlt(value.alt)
           ta == AltOfTag(target_type)
           xs == [i \in 1..Len(value.val) |-> MathOf(ea, value.val[i])]
       IN  IF \A i \in 1..Len(xs) : InRange(ta, xs[i])
           THEN converted =
                    Val(VecAlt(ta), [i \in 1..Len(xs) |-> Encode(ta, xs[i])])
           ELSE converted = Monostate

\* an array whose first element fits int8_t and whose second does not came
\* back empty
C3_Witness ==
    /\ Returned
    /\ value.alt = "vector<int16_t>"
    /\ target_type = "INT8_ARRAY"
    /\ Len(value.val) = 2
    /\ InRange("int8_t", MathOf("int16_t", value.val[1]))
    /\ ~InRange("int8_t", MathOf("int16_t", value.val[2]))
    /\ converted = Monostate

\* C4: a non-empty value whose tag differs from the target and is not
\* compatible with it (another family: signed against unsigned, integer
\* against floating, scalar against array, bool, string or struct against
\* anything else) converts to the empty value.
C4_IncompatibleYieldsEmpty ==
    LET current == get_value_type(value)
    IN  /\ (/\ Returned
            /\ ~is_empty(value)
            /\ current # target_type
            /\ ~are_types_compatible(target_type, current))
           => converted = Monostate
        /\ (/\ Returned
            /\ ~is_empty(value)
            /\ target_type # "UNSPECIFIED"
            /\ FamilyOf(current) # FamilyOf(target_type))
           => converted = Monostate

\* a signed scalar asked to become unsigned came back empty
C4_Witness ==
    /\ Returned
    /\ value.alt = "int32_t"
    /\ target_type = "UINT32"
    /\ converted = Monostate

(***************************************************************************)
(* SpecQualified: one call of convert_qualified_value_type on every        *)
(* qualified value enumerated (arrays of at most one element: the call     *)
(* never looks inside the value).                                          *)
(***************************************************************************)
InitQualified ==
    /\ qvalue \in {DynamicQualifiedValue(v, q, ts) :
                      v \in ValueSamples(1), q \in SignalQuality, ts \in 0..MaxTime}
    /\ target_type \in ValueType
    /\ qconverted = NoQualified
    /\ value = NoValue
    /\ converted = NoValue
    /\ IdleCompat
    /\ IdleStruct
    /\ IdleThreshold
    /\ IdleTags
    /\ IdleClock
    /\ pc = "start"

ConvertQualifiedValueType ==
    /\ pc = "start"
    /\ qconverted' = convert_qualified_value_type(qvalue, target_type)
    /\ pc' = "convert_qualified_value_type"
    /\ UNCHANGED <<value, target_type, converted, qvalue, compatVars, structVars, thrVars, tagVars, clockVars>>
NextQualified == ConvertQualifiedValueType

SpecQualified == InitQualified /\ [][NextQualified]_vars

QReturned == pc = "convert_qualified_value_type"

\* C5: for a VALID qualified value that is not empty, the result is the
\* empty value with quality INVALID when the value-layer conversion yields the
\* empty value, and the converted value with quality VALID when it succeeds;
\* the timestamp is the argument's in both cases.
C5_QualifiedConversion ==
    (QReturned /\ qvalue.quality = "VALID" /\ ~is_empty(qvalue.value))
    => LET conv == convert_value_type(qvalue.value, target_type)
       IN  /\ qconverted.timestamp = qvalue.timestamp
           /\ IF conv = Monostate
              THEN qconverted.value = Monostate /\ qconverted.quality = "INVALID"
              ELSE qconverted.value = conv /\ qconverted.quality = "VALID"

\* a VALID int64_t out of the range of INT8 came back empty and INVALID, with
\* its timestamp
C5_Witness ==
    /\ QReturned
    /\ qvalue.quality = "VALID"
    /\ qvalue.value = Val("int64_t", <<128, 0, 0, 0>>)
    /\ qvalue.timestamp = MaxTime
    /\ target_type = "INT8"
    /\ qconverted = DynamicQualifiedValue(Monostate, "INVALID", MaxTime)

\* C6: a qualified value whose quality is not VALID, or whose value is empty,
\* comes back unchanged for every target: value, quality and timestamp.
C6_NotValidOrEmptyUnchanged ==
    (QReturned /\ (qvalue.quality # "VALID" \/ is_empty(qvalue.value)))
    => qconverted = qvalue

\* an INVALID int64_t that would convert to INT8 came back as it was
C6_Witness ==
    /\ QReturned
    /\ qvalue.quality = "INVALID"
    /\ qvalue.value = Val("int64_t", <<127, 0, 0, 0>>)
    /\ target_type = "INT8"
    /\ convert_value_type(qvalue.value, target_type) = Val("int8_t", <<127>>)
    /\ qconverted = qvalue

(***************************************************************************)
(* SpecCompat: are_types_compatible on every triple of tags.               *)
(***************************************************************************)
InitCompat ==
    /\ tagA \in ValueType
    /\ tagB \in ValueType
    /\ tagC \in ValueType
    /\ compatible = NoCompat
    /\ IdleConv
    /\ IdleStruct
    /\ IdleThreshold
    /\ IdleTags
    /\ IdleClock
    /\ pc = "start"

AreTypesCompatible ==
    /\ pc = "start"
    /\ compatible' = [ab |-> are_types_compatible(tagA, tagB),
                      ba |-> are_types_compatible(tagB, tagA),
                      bc |-> are_types_compatible(tagB, tagC),
                      ac |-> are_types_compatible(tagA, tagC)]
    /\ pc' = "are_types_compatible"
    /\ UNCHANGED <<tagA, tagB, tagC, convVars, structVars, thrVars, tagVars, clockVars>>
NextCompat == AreTypesCompatible

SpecCompat == InitCompat /\ [][NextCompat]_vars

CReturned == pc = "are_types_compatible"

ArrayTags ==
    {"STRING_ARRAY", "BOOL_ARRAY", "STRUCT_ARRAY"}
        \cup SignedArrayTags \cup UnsignedArrayTags \cup FloatArrayTags
ScalarTags == ValueType \ (ArrayTags \cup {"UNSPECIFIED"})

\* C7: are_types_compatible(expected, actual) is true exactly when the tags
\* are equal, or one is UNSPECIFIED, or both are in one of the six numeric
\* families; so it is false for signed against unsigned, scalar against array
\* and integer against floating.
C7_CompatibleIffSameFamily ==
    CReturned =>
        /\ compatible.ab <=>
              \/ tagA = tagB
              \/ tagA = "UNSPECIFIED"
              \/ tagB = "UNSPECIFIED"
              \/ \E F \in NumericFamilies : tagA \in F /\ tagB \in F
        /\ (tagA \in SignedTags /\ tagB \in UnsignedTags) => ~compatible.ab
        /\ (tagA \in ScalarTags /\ tagB \in ArrayTags) => ~compatible.ab
        /\ (tagA \in SignedTags \cup UnsignedTags /\ tagB \in FloatTags)
              => ~compatible.ab

\* INT8 against INT64 was found compatible, INT8 against UINT8 was not
C7_Witness ==
    /\ CReturned
    /\ tagA = "INT8" /\ tagB = "INT64" /\ tagC = "UINT8"
    /\ compatible.ab /\ ~compatible.ac

\* C8 as stated: compatible(a, b) and compatible(b, c) imply compatible(a, c)
\* for all tags.
C8_Transitive ==
    CReturned => ((compatible.ab /\ compatible.bc) => compatible.ac)

\* C8, amended: are_types_compatible is reflexive and symmetric on all tags,
\* and compatible(a, b) and compatible(b, c) imply compatible(a, c) whenever
\* the middle tag b is not UNSPECIFIED.
C8_TransitiveThroughSpecified ==
    CReturned =>
        /\ compatible.ab = compatible.ba
        /\ (tagA = tagB) => compatible.ab
        /\ (tagB # "UNSPECIFIED" /\ compatible.ab /\ compatible.bc) => compatible.ac

\* INT8, INT32, INT64: compatible pairwise through a middle tag that is set
C8_Witness ==
    /\ CReturned
    /\ tagA = "INT8" /\ tagB = "INT32" /\ tagC = "INT64"
    /\ compatible.ab /\ compatible.bc /\ compatible.ac

(***************************************************************************)
(* Structs (struct.hpp, struct.cpp).  A std::map is a function; it is      *)
(* walked in the order of its keys, which FieldOrder lists in the order of *)
(* std::string's operator<.                                                *)
(***************************************************************************)
EmptyMap == <<>>
Put(m, k, x) == [y \in DOMAIN m \cup {k} |-> IF y = k THEN x ELSE m[y]]

FieldDefinition(name, type, default_value, struct_type_name) ==
    [name |-> name, type |-> type, description |-> "",
     default_value |-> default_value, struct_type_name |-> struct_type_name]

StructDefinition(type_name) ==
    [type_name |-> type_name, description |-> "", fields |-> EmptyMap]

\* StructDefinition::add_field
add_field(def, field) == [def EXCEPT !.fields = Put(@, field.name, field)]

StructValue(type_name, fields) == [type_name |-> type_name, fields |-> fields]

\* StructValue::has_field, StructValue::get_field (a null pointer: Nullopt)
has_field(sv, field_name) == field_name \in DOMAIN sv.fields
get_field(sv, field_name) ==
    IF field_name \in DOMAIN sv.fields THEN Some(sv.fields[field_name]) ELSE Nullopt

\* field names in the order the example schema declares them
FieldOrder_Declaration == <<"Address", "Receiver", "Priority">>

\* the field names, as std::string orders them
FieldOrder == <<"Address", "Priority", "Receiver">>
TypeNames == {"DeliveryInfo", "Position"}

\* the keys of a map of fields in iteration order
Keys(m) == SelectSeq(FieldOrder, LAMBDA n : n \in DOMAIN m)

\* StructRegistry::get_struct (a null pointer: Nullopt), has_struct
get_struct(registry, type_name) ==
    IF type_name \in DOMAIN registry THEN Some(registry[type_name]) ELSE Nullopt
has_struct(registry, type_name) == type_name \in DOMAIN registry

\* StructRegistry::register_struct replacing a definition already registered
register_struct_Overwrites(registry, definition) ==
    [structs |-> Put(registry, definition.type_name, definition),
     result |-> definition.type_name \notin DOMAIN registry]

\* StructRegistry::register_struct: the map after the call, and what it returns
register_struct(registry, definition) ==
    LET type_name == definition.type_name
    IN  IF type_name \in DOMAIN registry
        THEN [structs |-> registry, result |-> FALSE]  \* Already registered
        ELSE [structs |-> Put(registry, type_name, definition), result |-> TRUE]

(***************************************************************************)
(* validate_struct (struct.cpp).  It calls itself for a nested struct; the *)
(* stack holds MaxDepth frames of it, and a call that needs more does not  *)
(* return.                                                                 *)
(***************************************************************************)
MaxDepth == 3

StackOverflow == [has_value |-> FALSE, returns |-> FALSE]
Returns(r) == "returns" \notin DOMAIN r

RECURSIVE validate_struct(_, _, _, _, _)
RECURSIVE ValidateFields(_, _, _, _, _, _, _)

\* the loop over definition->fields() returning a nested error without the
\* prefix that names the nesting field
RECURSIVE ValidateFields_NestedUnprefixed(_, _, _, _, _, _, _)
ValidateFields_NestedUnprefixed(hp, val, definition, registry, strict, depth, i) ==
    LET keys == Keys(definition.fields)
    IN  IF i > Len(keys) THEN Nullopt
        ELSE
        LET field_name == keys[i]
            field_def == definition.fields[field_name]
            rest == ValidateFields_NestedUnprefixed(hp, val, definition, registry,
                                                    strict, depth, i + 1)
        IN  IF ~has_field(val, field_name)
            THEN IF ~field_def.default_value.has_value
                 THEN Some(<<"Required field '", field_name,
                             "' missing in struct '", val.type_name, "'">>)
                 ELSE rest
            ELSE
            LET field_value == get_field(val, field_name).value
                actual_type == get_value_type(field_value)
            IN  IF ~are_types_compatible(field_def.type, actual_type)
                THEN Some(<<"Field '", field_name, "' in struct '", val.type_name,
                            "' has type ", actual_type,
                            " but expected ", field_def.type>>)
                ELSE IF /\ field_def.type = "STRUCT"
                        /\ field_value.alt = StructAlt
                        /\ field_value.val # 0
                THEN LET nested_error ==
                             validate_struct(hp, field_value.val, registry,
                                             strict, depth - 1)
                     IN  IF ~Returns(nested_error) \/ nested_error.has_value
                         THEN nested_error
                         ELSE rest
                ELSE rest

\* the loop over definition->fields(), from the i-th key on
ValidateFields(hp, val, definition, registry, strict, depth, i) ==
    LET keys == Keys(definition.fields)
    IN  IF i > Len(keys) THEN Nullopt
        ELSE
        LET field_name == keys[i]
            field_def == definition.fields[field_name]
            rest == ValidateFields(hp, val, definition, registry, strict, depth, i + 1)
        IN  IF ~has_field(val, field_name)
            THEN \* Check if field has a default value
                 IF ~field_def.default_value.has_value
                 THEN Some(<<"Required field '", field_name,
                             "' missing in struct '", val.type_name, "'">>)
                 ELSE rest
            ELSE
            LET field_value == get_field(val, field_name).value
                actual_type == get_value_type(field_value)
            IN  IF ~are_types_compatible(field_def.type, actual_type)
                THEN Some(<<"Field '", field_name, "' in struct '", val.type_name,
                            "' has type ", actual_type,
                            " but expected ", field_def.type>>)
                \* If field is a nested struct, validate recursively
                ELSE IF /\ field_def.type = "STRUCT"
                        /\ field_value.alt = StructAlt
                        /\ field_value.val # 0
                THEN LET nested_error ==
                             validate_struct(hp, field_value.val, registry,
                                             strict, depth - 1)
                     IN  IF ~Returns(nested_error) THEN nested_error
                         ELSE IF nested_error.has_value
                         THEN Some(<<"Nested struct field '", field_name, "': ">>
                                       \o nested_error.value)
                         ELSE rest
                ELSE rest

\* the strict loop reporting nothing
ExtraFields_None(val, definition, i) == Nullopt

\* the strict loop over value.fields(), from the i-th key on
RECURSIVE ExtraFields(_, _, _)
ExtraFields(val, definition, i) ==
    LET keys == Keys(val.fields)
    IN  IF i > Len(keys) THEN Nullopt
        ELSE IF keys[i] \notin DOMAIN definition.fields
        THEN Some(<<"Extra field '", keys[i], "' not defined in struct type '",
                    val.type_name, "'">>)
        ELSE ExtraFields(val, definition, i + 1)

\* validate_struct accepting an instance that lacks a required field
validate_struct_MissingAccepted(hp, h, registry, strict, depth) ==
    LET val == hp[h]
        definition == get_struct(registry, val.type_name)
    IN  IF ~definition.has_value
        THEN Some(<<"Struct type '", val.type_name, "' not found in registry">>)
        ELSE LET present == [n \in DOMAIN definition.value.fields \cap DOMAIN val.fields
                                |-> definition.value.fields[n]]
                 error == ValidateFields(hp, val,
                                         [definition.value EXCEPT !.fields = present],
                                         registry, strict, depth, 1)
             IN  IF error.has_value \/ ~Returns(error) THEN error
                 ELSE IF strict THEN ExtraFields(val, definition.value, 1)
                 ELSE Nullopt

\* validate_struct running the strict loop whatever `strict` says
validate_struct_AlwaysStrict(hp, h, registry, strict, depth) ==
    IF depth = 0 THEN StackOverflow
    ELSE
    LET val == hp[h]
        definition == get_struct(registry, val.type_name)
    IN  IF ~definition.has_value
        THEN Some(<<"Struct type '", val.type_name, "' not found in registry">>)
        ELSE LET error == ValidateFields(hp, val, definition.value, registry,
                                         strict, depth, 1)
             IN  IF error.has_value \/ ~Returns(error) THEN error
                 ELSE ExtraFields(val, definition.value, 1)

\* validate_struct running the strict loop before the loop over the schema
validate_struct_ExtraFirst(hp, h, registry, strict, depth) ==
    IF depth = 0 THEN StackOverflow
    ELSE
    LET val == hp[h]
        definition == get_struct(registry, val.type_name)
    IN  IF ~definition.has_value
        THEN Some(<<"Struct type '", val.type_name, "' not found in registry">>)
        ELSE LET extra == IF strict THEN ExtraFields(val, definition.value, 1)
                          ELSE Nullopt
             IN  IF extra.has_value THEN extra
                 ELSE ValidateFields(hp, val, definition.value, registry,
                                     strict, depth, 1)

\* validate_struct(value, registry, strict), value being the object hp[h]
validate_struct(hp, h, registry, strict, depth) ==
    IF depth = 0 THEN StackOverflow
    ELSE
    LET val == hp[h]
        \* Check if struct type is registered
        definition == get_struct(registry, val.type_name)
    IN  IF ~definition.has_value
        THEN Some(<<"Struct type '", val.type_name, "' not found in registry">>)
        ELSE \* Check all required fields from definition are present
             LET error == ValidateFields(hp, val, definition.value, registry,
                                         strict, depth, 1)
             IN  IF error.has_value \/ ~Returns(error) THEN error
                 \* In strict mode, check for extra fields not in definition
                 ELSE IF strict THEN ExtraFields(val, definition.value, 1)
                 ELSE Nullopt  \* Valid

(***************************************************************************)
(* The definitions and instances enumerated.                               *)
(***************************************************************************)
\* the field definitions a type may declare under each field name
FieldKinds(type_name) ==
    IF type_name = "DeliveryInfo"
    THEN [Address |->
              {FieldDefinition("Address", "STRING", Nullopt, ""),
               FieldDefinition("Address", "STRING", Some(Val("string", "a")), "")},
          Priority |->
              {FieldDefinition("Priority", "INT32", Nullopt, ""),
               FieldDefinition("Priority", "INT32", Some(Val("int32_t", <<0, 0>>)), "")},
          Receiver |->
              {FieldDefinition("Receiver", "STRING", Nullopt, ""),
               FieldDefinition("Receiver", "STRUCT", Nullopt, "Position"),
               FieldDefinition("Receiver", "STRUCT_ARRAY", Nullopt, "Position")}]
    ELSE [Address |->
              {FieldDefinition("Address", "STRING", Nullopt, "")},
          Priority |->
              {FieldDefinition("Priority", "INT32", Nullopt, ""),
               FieldDefinition("Priority", "INT32", Some(Val("int32_t", <<0, 0>>)), "")},
          Receiver |-> {}]

\* every way of taking at most one element of C[k] for each key k
Picks(C) ==
    {f \in [DOMAIN C -> UNION {C[k] : k \in DOMAIN C} \cup {Nullopt}] :
        \A k \in DOMAIN C : f[k] \in C[k] \cup {Nullopt}}
Picked(f) == [k \in {j \in DOMAIN f : f[j] # Nullopt} |-> f[k]]

\* StructDefinition(type_name) followed by add_field for each field picked
DefinitionsOf(type_name) ==
    {[StructDefinition(type_name) EXCEPT !.fields = Picked(f)] :
        f \in Picks(FieldKinds(type_name))}
DefinitionSamples == UNION {DefinitionsOf(n) : n \in TypeNames}

\* the registries register_struct builds from them: every key is the type
\* name of its definition
RegistrySamples ==
    {Picked(f) : f \in Picks([n \in TypeNames |-> DefinitionsOf(n)])}

\* the values set_field may have stored under each field name of object h;
\* object 1 refers to object 2, which refers to no other
FieldValues(h) ==
    IF h = 1
    THEN [Address |-> {Val("string", "a"), Val("int32_t", <<0, 0>>)},
          Priority |-> {Val("int32_t", <<0, 0>>), Val("int64_t", <<0, 0, 0, 0>>),
                        Val("string", "a"), Monostate},
          Receiver |-> {Val("string", "a"), Val(StructAlt, 0), Val(StructAlt, 2),
                        Val(StructVecAlt, <<2>>)}]
    ELSE [Address |-> {Val("string", "a")},
          Priority |-> {Val("int32_t", <<0, 0>>), Val("string", "a")},
          Receiver |-> {}]

InstancesOf(h) ==
    {StructValue(n, Picked(f)) : n \in TypeNames, f \in Picks(FieldValues(h))}

Handles == {1, 2}
HeapSamples == {<<a, b>> : a \in InstancesOf(1), b \in InstancesOf(2)}

(***************************************************************************)
(* SpecRegistry: register_struct and clear, in any order.                  *)
(***************************************************************************)
\* call.registered lists the definitions register_struct returned true for
\* since the registry was constructed or last cleared, in the order of the calls
InitRegistry ==
    /\ structs_ = EmptyMap
    /\ heap = <<>>
    /\ call = [op |-> "none", registered |-> <<>>]
    /\ IdleConv
    /\ IdleCompat
    /\ IdleThreshold
    /\ IdleTags
    /\ IdleClock
    /\ pc = "start"

RegisterStruct ==
    \E definition \in DefinitionSamples :
        LET r == register_struct(structs_, definition)
        IN  /\ structs_' = r.structs
            /\ call' = [op |-> "register_struct", definition |-> definition,
                        result |-> r.result,
                        registered |-> IF r.result
                                       THEN Append(call.registered, definition)
                                       ELSE call.registered]
            /\ UNCHANGED <<heap, convVars, compatVars, pc, thrVars, tagVars, clockVars>>
Clear ==
    /\ structs_' = EmptyMap
    /\ call' = [op |-> "clear", registered |-> <<>>]
    /\ UNCHANGED <<heap, convVars, compatVars, pc, thrVars, tagVars, clockVars>>
NextRegistry == RegisterStruct \/ Clear

SpecRegistry == InitRegistry /\ [][NextRegistry]_vars

\* C9: register_struct(def) inserts def and returns true exactly when no
\* definition of def's type name is registered; otherwise it returns false and
\* every entry of the registry, the one of that name included, stays as it was.
C9_RegisterOnce ==
    [][call'.op = "register_struct" =>
          LET def == call'.definition
          IN  IF def.type_name \in DOMAIN structs_
              THEN /\ call'.result = FALSE
                   /\ structs_' = structs_
              ELSE /\ call'.result = TRUE
                   /\ DOMAIN structs_' = DOMAIN structs_ \cup {def.type_name}
                   /\ structs_'[def.type_name] = def
                   /\ \A n \in DOMAIN structs_ : structs_'[n] = structs_[n]
      ]_vars

\* a second definition of a registered name was refused and the first one kept
C9_Witness ==
    /\ call.op = "register_struct"
    /\ call.result = FALSE
    /\ call.definition.type_name \in DOMAIN structs_
    /\ structs_[call.definition.type_name] # call.definition
    /\ Cardinality(DOMAIN structs_) = 2

(***************************************************************************)
(* SpecValidate: one call of validate_struct on object 1 of every heap,    *)
(* against every registry, strict or not.                                  *)
(***************************************************************************)
InitValidate ==
    /\ structs_ \in RegistrySamples
    /\ heap \in HeapSamples
    /\ call = [op |-> "none"]
    /\ IdleConv
    /\ IdleCompat
    /\ IdleThreshold
    /\ IdleTags
    /\ IdleClock
    /\ pc = "start"

ValidateStruct ==
    /\ pc = "start"
    /\ \E strict \in BOOLEAN :
          call' = [op |-> "validate_struct", value |-> 1, strict |-> strict,
                   result |-> validate_struct(heap, 1, structs_, strict, MaxDepth)]
    /\ pc' = "validate_struct"
    /\ UNCHANGED <<structs_, heap, convVars, compatVars, thrVars, tagVars, clockVars>>
NextValidate == ValidateStruct

SpecValidate == InitValidate /\ [][NextValidate]_vars

Validated == pc = "validate_struct"

\* the declared fields an instance lacks, and those of them without a default
Absent(sv, def) == DOMAIN def.fields \ DOMAIN sv.fields
Required(sv, def) == {n \in Absent(sv, def) : ~def.fields[n].default_value.has_value}

\* C10: validate_struct returns an error for an instance of a registered type
\* that lacks a declared field without a default; and it never reports a
\* declared field that has a default as missing.
C10_MissingRequiredFails ==
    (Validated /\ heap[call.value].type_name \in DOMAIN structs_)
    => LET sv == heap[call.value]
           def == structs_[sv.type_name]
           r == call.result
       IN  /\ Required(sv, def) # {} => r.has_value
           /\ (r.has_value /\ r.value[1] = "Required field '")
                 => r.value[2] \in Required(sv, def)
           /\ (/\ Required(sv, def) = {}
               /\ \A n \in DOMAIN sv.fields \cap DOMAIN def.fields :
                      get_value_type(sv.fields[n]) = def.fields[n].type
               /\ \A n \in DOMAIN sv.fields :
                      n \in DOMAIN def.fields /\ sv.fields[n].alt # StructAlt)
                 => ~r.has_value

\* an instance lacking only a field that has a default passed validation
C10_Witness ==
    /\ Validated
    /\ call.strict
    /\ heap[call.value].type_name \in DOMAIN structs_
    /\ Absent(heap[call.value], structs_[heap[call.value].type_name]) = {"Priority"}
    /\ Required(heap[call.value], structs_[heap[call.value].type_name]) = {}
    /\ ~call.result.has_value

\* C11: validation soundness.  When validate_struct returns no error, the
\* instance's type is registered, every field of the instance that the schema
\* declares has a tag compatible with the declared one, and in strict mode
\* every field name of the instance is a field name of the schema.
C11_ValidationSoundness ==
    (Validated /\ Returns(call.result) /\ ~call.result.has_value)
    => LET sv == heap[call.value]
       IN  /\ sv.type_name \in DOMAIN structs_
           /\ \A n \in DOMAIN sv.fields \cap DOMAIN structs_[sv.type_name].fields :
                  are_types_compatible(structs_[sv.type_name].fields[n].type,
                                       get_value_type(sv.fields[n]))
           /\ call.strict
                 => DOMAIN sv.fields \subseteq DOMAIN structs_[sv.type_name].fields

\* a strict validation of an instance with three fields returned no error
C11_Witness ==
    /\ Validated
    /\ call.strict
    /\ Returns(call.result)
    /\ ~call.result.has_value
    /\ Cardinality(DOMAIN heap[call.value].fields) = 3

(***************************************************************************)
(* SpecNested: one call of validate_struct on object 1 of a chain of three *)
(* objects, each of which may hold the next in its field Receiver.         *)
(***************************************************************************)
\* the field definitions a type may declare under each field name; a
\* DeliveryInfo may nest a Position or another DeliveryInfo
NestedKinds(type_name) ==
    IF type_name = "DeliveryInfo"
    THEN [Address |-> {FieldDefinition("Address", "STRING", Nullopt, "")},
          Priority |-> {},
          Receiver |->
              {FieldDefinition("Receiver", "STRUCT", Nullopt, "Position"),
               FieldDefinition("Receiver", "STRUCT", Nullopt, "DeliveryInfo")}]
    ELSE [Address |-> {FieldDefinition("Address", "STRING", Nullopt, "")},
          Priority |-> {},
          Receiver |-> {}]

NestedDefinitionsOf(type_name) ==
    {[StructDefinition(type_name) EXCEPT !.fields = Picked(f)] :
        f \in Picks(NestedKinds(type_name))}

NestedRegistrySamples ==
    {Picked(f) : f \in Picks([n \in TypeNames |-> NestedDefinitionsOf(n)])}

NestedHandles == {1, 2, 3}

\* the values set_field may have stored under each field name of object h
NestedValues(h) ==
    [Address |-> {Val("string", "a"), Val("int32_t", <<0, 0>>)},
     Priority |-> {Val("int32_t", <<0, 0>>)},
     Receiver |-> {Val(StructAlt, 0)}
                      \cup {Val(StructAlt, n) : n \in NestedHandles \cap {h + 1}}]

NestedInstancesOf(h) ==
    {StructValue(n, Picked(f)) : n \in TypeNames, f \in Picks(NestedValues(h))}

NestedHeapSamples ==
    {<<a, b, c>> : a \in NestedInstancesOf(1), b \in NestedInstancesOf(2),
                   c \in NestedInstancesOf(3)}

InitNested ==
    /\ structs_ \in NestedRegistrySamples
    /\ heap \in NestedHeapSamples
    /\ call = [op |-> "none"]
    /\ IdleConv
    /\ IdleCompat
    /\ IdleThreshold
    /\ IdleTags
    /\ IdleClock
    /\ pc = "start"

SpecNested == InitNested /\ [][NextValidate]_vars

\* the fields of instance sv declared STRUCT by def that hold a non-null handle
NestingFields(sv, def) ==
    {n \in DOMAIN sv.fields \cap DOMAIN def.fields :
        /\ def.fields[n].type = "STRUCT"
        /\ sv.fields[n].alt = StructAlt
        /\ sv.fields[n].val # 0}

\* the diagnostic of a failure nested in field n
Prefixed(n, error) == Some(<<"Nested struct field '", n, "': ">> \o error.value)

\* C12: for a field declared STRUCT that holds a non-null handle, the struct
\* held is validated too, with the same registry and strictness, at every
\* depth: the outer validation returns no error only if the nested one returns
\* none, and a nested failure is what the outer validation returns, prefixed
\* with the name of the nesting field, unless a field checked before the
\* nesting one fails itself.
C12_NestedValidated ==
    (Validated /\ heap[call.value].type_name \in DOMAIN structs_)
    => LET sv == heap[call.value]
           def == structs_[sv.type_name]
       IN  \A n \in NestingFields(sv, def) :
              LET nested == validate_struct(heap, sv.fields[n].val, structs_,
                                            call.strict, MaxDepth)
              IN  /\ ~call.result.has_value => ~nested.has_value
                  /\ nested.has_value
                        => \/ call.result = Prefixed(n, nested)
                           \/ /\ call.result.has_value
                              /\ call.result.value[1] \in {"Required field '", "Field '"}
                              /\ call.result.value[2] # n
                  /\ (call.result.has_value
                         /\ call.result.value[1] = "Nested struct field '"
                         /\ call.result.value[2] = n)
                        => nested.has_value /\ call.result = Prefixed(n, nested)

\* a failure two levels down came back with both prefixes
C12_Witness ==
    /\ Validated
    /\ call.result.has_value
    /\ Len(call.result.value) > 6
    /\ call.result.value[1] = "Nested struct field '"
    /\ call.result.value[4] = "Nested struct field '"
    /\ call.result.value[7] = "Required field '"

\* object sv without the fields its registered schema does not declare
PruneObject(sv, registry) ==
    IF sv.type_name \notin DOMAIN registry THEN sv
    ELSE StructValue(sv.type_name,
                     [n \in DOMAIN sv.fields \cap DOMAIN registry[sv.type_name].fields
                         |-> sv.fields[n]])

\* the heap with every object pruned
Pruned(hp, registry) == [h \in DOMAIN hp |-> PruneObject(hp[h], registry)]

\* C13: a strict validate_struct returns an error for an instance of a
\* registered type that has a field its schema does not declare; a lax one
\* returns what it returns for the same instance with the undeclared fields
\* removed, in the instance and in every struct nested in it.
C13_StrictRejectsLaxIgnoresExtras ==
    Validated
    => LET sv == heap[call.value]
       IN  /\ (/\ call.strict
               /\ sv.type_name \in DOMAIN structs_
               /\ ~(DOMAIN sv.fields \subseteq DOMAIN structs_[sv.type_name].fields))
                 => call.result.has_value
           /\ ~call.strict
                 => call.result = validate_struct(Pruned(heap, structs_), call.value,
                                                  structs_, FALSE, MaxDepth)

\* a lax validation passed an instance that has an undeclared field and nests
\* a struct that has one too
C13_Witness ==
    /\ Validated
    /\ ~call.strict
    /\ ~call.result.has_value
    /\ heap[1].type_name \in DOMAIN structs_
    /\ NestingFields(heap[1], structs_[heap[1].type_name]) = {"Receiver"}
    /\ PruneObject(heap[1], structs_) # heap[1]
    /\ PruneObject(heap[2], structs_) # heap[2]

\* field n of the schema def fails for instance sv: it is required and absent,
\* or it holds a value of an incompatible tag, or the struct nested in it fails
DeclaredFieldFails(hp, sv, def, registry, strict, n) ==
    IF n \notin DOMAIN sv.fields THEN ~def.fields[n].default_value.has_value
    ELSE \/ ~are_types_compatible(def.fields[n].type, get_value_type(sv.fields[n]))
         \/ /\ n \in NestingFields(sv, def)
            /\ validate_struct(hp, sv.fields[n].val, registry, strict,
                               MaxDepth).has_value

DeclaredHeads == {"Required field '", "Field '", "Nested struct field '"}

\* C14: validate_struct returns one diagnostic, that of the first failure in
\* the order of its checks.  An unregistered type name is reported with a
\* 'not found' message whatever the fields of the instance; otherwise the
\* failure of a declared field (required and missing, tag mismatch, nested
\* failure) is reported, for a field that does fail, also when the instance
\* has an undeclared field; an undeclared field is reported only when no
\* declared field fails.
C14_FirstFailureReported ==
    Validated
    => LET sv == heap[call.value]
           r == call.result
       IN  IF sv.type_name \notin DOMAIN structs_
           THEN r = Some(<<"Struct type '", sv.type_name, "' not found in registry">>)
           ELSE LET def == structs_[sv.type_name]
                    failing == {n \in DOMAIN def.fields :
                                   DeclaredFieldFails(heap, sv, def, structs_,
                                                      call.strict, n)}
                IN  /\ failing # {}
                       => /\ r.has_value
                          /\ r.value[1] \in DeclaredHeads
                          /\ r.value[2] \in failing
                    /\ (failing = {} /\ r.has_value)
                       => /\ call.strict
                          /\ r.value[1] = "Extra field '"
                          /\ r.value[2] \in DOMAIN sv.fields \ DOMAIN def.fields

\* a strict validation of an instance with an undeclared field and a declared
\* field of the wrong tag reported the declared field
C14_Witness ==
    /\ Validated
    /\ call.strict
    /\ heap[call.value].type_name \in DOMAIN structs_
    /\ ~(DOMAIN heap[call.value].fields
            \subseteq DOMAIN structs_[heap[call.value].type_name].fields)
    /\ call.result.has_value
    /\ call.result.value[1] = "Field '"

\* the schema DeliveryInfo { Address: String, Receiver: String, Priority: Int32 },
\* no field with a default, and an instance of it that supplies only Address
ExampleSchema ==
    add_field(add_field(add_field(StructDefinition("DeliveryInfo"),
        FieldDefinition("Address", "STRING", Nullopt, "")),
        FieldDefinition("Receiver", "STRING", Nullopt, "")),
        FieldDefinition("Priority", "INT32", Nullopt, ""))
ExampleValidated ==
    /\ Validated
    /\ get_struct(structs_, "DeliveryInfo") = Some(ExampleSchema)
    /\ heap[call.value] = StructValue("DeliveryInfo", Put(EmptyMap, "Address",
                                                          Val("string", "a")))

ArrayElements(hp, sv, def) ==
    UNION {{h \in {sv.fields[n].val[i] : i \in DOMAIN sv.fields[n].val} \ {0} :
                hp[h].type_name = def.fields[n].struct_type_name} :
              n \in {m \in DOMAIN sv.fields \cap DOMAIN def.fields :
                        /\ def.fields[m].type = "STRUCT_ARRAY"
                        /\ sv.fields[m].alt = StructVecAlt}}

\* C16: validate_struct returns an error for an instance that holds, in a field
\* declared STRUCT_ARRAY, an element of the registered type the field refers to
\* that itself fails validation.
C16_ArrayElementsValidated ==
    (Validated /\ heap[call.value].type_name \in DOMAIN structs_)
    => \A h \in ArrayElements(heap, heap[call.value],
                              structs_[heap[call.value].type_name]) :
          (/\ heap[h].type_name \in DOMAIN structs_
           /\ validate_struct(heap, h, structs_, call.strict, MaxDepth).has_value)
          => call.result.has_value

\* an instance passed validation whose array holds an element that lacks a
\* required field of its registered type
C16_Witness ==
    /\ Validated
    /\ heap[call.value].type_name \in DOMAIN structs_
    /\ \E h \in ArrayElements(heap, heap[call.value],
                               structs_[heap[call.value].type_name]) :
          /\ heap[h].type_name \in DOMAIN structs_
          /\ Required(heap[h], structs_[heap[h].type_name]) # {}
    /\ ~call.result.has_value

\* C17: validate_struct returns an error for an instance that holds, in a field
\* declared STRUCT, a struct whose type name is not the struct_type_name of the
\* field definition.
C17_TypeNameEnforced ==
    (Validated /\ heap[call.value].type_name \in DOMAIN structs_)
    => LET sv == heap[call.value]
           def == structs_[sv.type_name]
       IN  \A n \in NestingFields(sv, def) :
              heap[sv.fields[n].val].type_name # def.fields[n].struct_type_name
              => call.result.has_value

\* an instance passed validation whose field referring to Position holds a
\* valid DeliveryInfo
C17_Witness ==
    /\ Validated
    /\ heap[call.value].type_name \in DOMAIN structs_
    /\ \E n \in NestingFields(heap[call.value], structs_[heap[call.value].type_name]) :
          /\ structs_[heap[call.value].type_name].fields[n].struct_type_name = "Position"
          /\ heap[heap[call.value].fields[n].val].type_name = "DeliveryInfo"
    /\ has_struct(structs_, "Position")
    /\ ~call.result.has_value

(***************************************************************************)
(* create_default_struct (struct.cpp).                                     *)
(***************************************************************************)
\* StructValue::set_field keeping the value a field already has
set_field_Keeps(sv, field_name, v) ==
    IF field_name \in DOMAIN sv.fields THEN sv
    ELSE [sv EXCEPT !.fields = Put(@, field_name, v)]

\* StructValue::set_field
set_field(sv, field_name, v) == [sv EXCEPT !.fields = Put(@, field_name, v)]

\* the loop over definition->fields(), from the i-th key on
RECURSIVE SetDefaults(_, _, _)
SetDefaults(definition, sv, i) ==
    LET keys == Keys(definition.fields)
    IN  IF i > Len(keys) THEN sv
        ELSE LET field_def == definition.fields[keys[i]]
             IN  IF field_def.default_value.has_value
                 THEN SetDefaults(definition,
                                  set_field(sv, keys[i], field_def.default_value.value),
                                  i + 1)
                 ELSE SetDefaults(definition, sv, i + 1)

\* create_default_struct leaving the instance without fields
create_default_struct_Empty(type_name, registry) ==
    LET definition == get_struct(registry, type_name)
    IN  IF ~definition.has_value THEN Nullopt
        ELSE Some(StructValue(type_name, EmptyMap))

\* create_default_struct naming the instance after the description of the type
create_default_struct_Misnamed(type_name, registry) ==
    LET definition == get_struct(registry, type_name)
    IN  IF ~definition.has_value THEN Nullopt
        ELSE Some(SetDefaults(definition.value,
                              StructValue(definition.value.description, EmptyMap), 1))

create_default_struct(type_name, registry) ==
    LET definition == get_struct(registry, type_name)
    IN  IF ~definition.has_value THEN Nullopt
        ELSE \* Set all default values
             Some(SetDefaults(definition.value, StructValue(type_name, EmptyMap), 1))

(***************************************************************************)
(* SpecDefault: create_default_struct, then validate_struct on the         *)
(* instance it returned.                                                   *)
(***************************************************************************)
\* the field definitions a type may declare under each field name: with and
\* without a default, the default of the declared tag or not
DefaultKinds(type_name) ==
    IF type_name = "DeliveryInfo"
    THEN [Address |->
              {FieldDefinition("Address", "STRING", Nullopt, ""),
               FieldDefinition("Address", "STRING", Some(Val("string", "a")), "")},
          Priority |->
              {FieldDefinition("Priority", "INT32", Nullopt, ""),
               FieldDefinition("Priority", "INT32", Some(Val("int32_t", <<0, 0>>)), ""),
               FieldDefinition("Priority", "INT32", Some(Val("int64_t", <<0, 0, 0, 0>>)), ""),
               FieldDefinition("Priority", "INT32", Some(Val("string", "a")), "")},
          Receiver |->
              {FieldDefinition("Receiver", "STRUCT", Some(Val(StructAlt, 0)), "Position"),
               FieldDefinition("Receiver", "STRUCT", Some(Val(StructAlt, 1)), "Position")}]
    ELSE [Address |->
              {FieldDefinition("Address", "STRING", Nullopt, ""),
               FieldDefinition("Address", "STRING", Some(Val("string", "a")), "")},
          Priority |-> {},
          Receiver |-> {}]

DefaultDefinitionsOf(type_name) ==
    {[StructDefinition(type_name) EXCEPT !.fields = Picked(f)] :
        f \in Picks(DefaultKinds(type_name))}

DefaultRegistrySamples ==
    {Picked(f) : f \in Picks([n \in TypeNames |-> DefaultDefinitionsOf(n)])}

\* object 1, which a default may hold
DefaultHeapSamples ==
    {<<StructValue("Position", EmptyMap)>>,
     <<StructValue("Position", Put(EmptyMap, "Address", Val("string", "a")))>>}

InitDefault ==
    /\ structs_ \in DefaultRegistrySamples
    /\ heap \in DefaultHeapSamples
    /\ call = [op |-> "none"]
    /\ IdleConv
    /\ IdleCompat
    /\ IdleThreshold
    /\ IdleTags
    /\ IdleClock
    /\ pc = "start"

\* the instance returned becomes a new object of the heap
CreateDefaultStruct ==
    /\ pc = "start"
    /\ \E type_name \in TypeNames :
          LET r == create_default_struct(type_name, structs_)
          IN  /\ call' = [op |-> "create_default_struct", type_name |-> type_name,
                          result |-> r]
              /\ heap' = IF r.has_value THEN Append(heap, r.value) ELSE heap
    /\ pc' = "create_default_struct"
    /\ UNCHANGED <<structs_, convVars, compatVars, thrVars, tagVars, clockVars>>
\* validate_struct on the instance returned for call.type_name
ValidateDefault ==
    /\ pc = "create_default_struct"
    /\ call.result.has_value
    /\ call' = [op |-> "validate_struct", value |-> Len(heap), strict |-> TRUE,
                result |-> validate_struct(heap, Len(heap), structs_, TRUE, MaxDepth),
                type_name |-> call.type_name]
    /\ pc' = "validate_default"
    /\ UNCHANGED <<structs_, heap, convVars, compatVars, thrVars, tagVars, clockVars>>
NextDefault == CreateDefaultStruct \/ ValidateDefault

SpecDefault == InitDefault /\ [][NextDefault]_vars

DefaultValidated == pc = "validate_default"

\* C18 as stated: the instance create_default_struct returns for a registered
\* type passes the strict validate_struct against the same registry.
C18_DefaultCompleteness ==
    DefaultValidated => ~call.result.has_value

\* every field of def has a default of a tag compatible with the declared one,
\* and a default that holds a struct holds one that is valid
FullyDefaulted(hp, def, registry) ==
    \A n \in DOMAIN def.fields :
        LET d == def.fields[n].default_value
        IN  /\ d.has_value
            /\ are_types_compatible(def.fields[n].type, get_value_type(d.value))
            /\ (def.fields[n].type = "STRUCT" /\ d.value.alt = StructAlt
                   /\ d.value.val # 0)
                  => ~validate_struct(hp, d.value.val, registry, TRUE,
                                      MaxDepth).has_value

\* C18, amended: the instance create_default_struct returns for a registered
\* type passes the strict validate_struct against the same registry when the
\* schema gives every field a default of a tag compatible with the declared
\* one, a struct held by a default being valid itself; and an instance
\* returned for a schema with a field that has no default does not pass.
C18_DefaultCompletenessWhenFullyDefaulted ==
    DefaultValidated
    => LET def == structs_[call.type_name]
       IN  /\ FullyDefaulted(heap, def, structs_) => ~call.result.has_value
           /\ (\E n \in DOMAIN def.fields : ~def.fields[n].default_value.has_value)
                 => call.result.has_value

\* the instance of a schema with three defaulted fields, one default holding a
\* struct, passed validation
C18_Witness ==
    /\ DefaultValidated
    /\ ~call.result.has_value
    /\ FullyDefaulted(heap, structs_[call.type_name], structs_)
    /\ DOMAIN heap[call.value].fields = {"Address", "Priority", "Receiver"}
    /\ heap[call.value].fields["Receiver"].val = 1

\* C19: create_default_struct(name, registry) returns nothing exactly when
\* name is not registered; otherwise it returns an instance of type name whose
\* fields are the fields of the schema that have a default, each holding that
\* default.
C19_DefaultsOnly ==
    pc = "create_default_struct"
    => LET r == call.result
       IN  /\ ~r.has_value <=> call.type_name \notin DOMAIN structs_
           /\ r.has_value
                 => LET def == structs_[call.type_name]
                    IN  /\ r.value.type_name = call.type_name
                        /\ DOMAIN r.value.fields
                              = {n \in DOMAIN def.fields :
                                    def.fields[n].default_value.has_value}
                        /\ \A n \in DOMAIN r.value.fields :
                              r.value.fields[n] = def.fields[n].default_value.value

\* an instance was returned for a schema with defaulted and undefaulted fields
C19_Witness ==
    /\ pc = "create_default_struct"
    /\ call.result.has_value
    /\ DOMAIN call.result.value.fields = {"Priority", "Receiver"}
    /\ DOMAIN structs_[call.type_name].fields = {"Address", "Priority", "Receiver"}

(***************************************************************************)
(* SpecThreshold: one call of qualified_value_changed_beyond_threshold<T>. *)
(* Integer payloads are drawn at the limits of the type and of double's    *)
(* exactness; double payloads are small integers.                          *)
(***************************************************************************)
ThresholdTypes == {"int32_t", "int64_t", "double", "bool", "string"}

PayloadSamples(t) ==
    CASE t = "int32_t" ->
             {<<0, 0>>, <<1, 0>>, <<65535, 65535>>,          \* 0, 1, -1
              <<65535, 32767>>, <<0, 32768>>}                \* 2^31 - 1, -2^31
      [] t = "int64_t" ->
             {<<0, 0, 0, 0>>, <<1, 0, 0, 0>>,                \* 0, 1
              <<0, 0, 0, 16>>, <<0, 0, 0, 65520>>,           \* 2^52, -2^52
              <<0, 0, 0, 32>>, <<1, 0, 0, 32>>,              \* 2^53, 2^53 + 1
              <<65535, 65535, 65535, 32767>>,                \* 2^63 - 1
              <<0, 0, 0, 32768>>}                            \* -2^63
      [] t = "double" ->
             {Double(FALSE, <<0, 0, 0, 0, 0>>), Double(FALSE, <<1, 0, 0, 0, 0>>),
              Double(FALSE, <<2, 0, 0, 0, 0>>), Double(TRUE, <<1, 0, 0, 0, 0>>)}
      [] t = "bool" -> BOOLEAN
      [] t = "string" -> {"", "a"}

QualifiedSamples(t) ==
    {QualifiedValue(v, q, ts) :
        v \in {Nullopt} \cup {Some(x) : x \in PayloadSamples(t)},
        q \in {"VALID", "INVALID"},
        ts \in 0..MaxTime}

ThresholdSamples ==
    {Double(TRUE, <<1, 0, 0, 0, 0>>),                        \* -1
     Double(FALSE, <<0, 0, 0, 0, 0>>), Double(FALSE, <<1, 0, 0, 0, 0>>),
     Double(FALSE, <<2, 0, 0, 0, 0>>),
     Double(FALSE, <<0, 0, 0, 32, 0>>),                      \* 2^53
     Double(FALSE, <<0, 0, 0, 0, 1>>)}                       \* 2^64

InitThreshold ==
    /\ T \in ThresholdTypes
    /\ old_val \in QualifiedSamples(T)
    /\ new_val \in QualifiedSamples(T)
    /\ threshold \in ThresholdSamples
    /\ changed = FALSE
    /\ IdleConv
    /\ IdleCompat
    /\ IdleStruct
    /\ IdleTags
    /\ IdleClock
    /\ pc = "start"

QualifiedValueChangedBeyondThreshold ==
    /\ pc = "start"
    /\ changed' = qualified_value_changed_beyond_threshold(T, old_val, new_val,
                                                           threshold)
    /\ pc' = "qualified_value_changed_beyond_threshold"
    /\ UNCHANGED <<T, old_val, new_val, threshold, convVars, compatVars, structVars, tagVars, clockVars>>
NextThreshold == QualifiedValueChangedBeyondThreshold

SpecThreshold == InitThreshold /\ [][NextThreshold]_vars

ThresholdReturned == pc = "qualified_value_changed_beyond_threshold"

\* the number a payload of type t holds, as a sign and a five-limb magnitude
NumberOf(t, x) ==
    IF t \in IntAlts
    THEN [neg |-> MathOf(t, x).neg, mag |-> Resize(MathOf(t, x).mag, 5, 0)]
    ELSE x

\* |b - a|, exactly
Distance(a, b) ==
    IF a.neg # b.neg THEN AddLimbs(a.mag, b.mag, 0)
    ELSE IF ULt(a.mag, b.mag) THEN SubLimbs(b.mag, a.mag, 0)
    ELSE SubLimbs(a.mag, b.mag, 0)

\* the five rules, the difference of rule four being that of the numbers held
FiveRules(t, old, new, thr) ==
    IF old.quality # new.quality THEN TRUE
    ELSE IF ~old.value.has_value /\ ~new.value.has_value THEN FALSE
    ELSE IF ~old.value.has_value \/ ~new.value.has_value THEN TRUE
    ELSE IF t \in {"int32_t", "int64_t", "double"} /\ ~thr.neg
            /\ thr.mag # <<0, 0, 0, 0, 0>>
    THEN ~ULt(Distance(NumberOf(t, old.value.value), NumberOf(t, new.value.value)),
              thr.mag)
    ELSE old.value.value # new.value.value

ExactInDouble(t, old, new) ==
    \A q \in {old, new} :
        /\ q.value.has_value
        /\ t \in IntAlts
              => ~ULt(<<0, 0, 0, 16, 0>>, NumberOf(t, q.value.value).mag)

C24_ConversionIdempotence ==
    (Returned /\ (target_type = get_value_type(value) \/ value = Monostate))
    => converted = value

\* a non-empty array was converted to its own tag
C24_Witness ==
    /\ Returned
    /\ value.alt = "vector<int16_t>"
    /\ Len(value.val) = MaxLen
    /\ target_type = "INT16_ARRAY"
    /\ converted = value

(***************************************************************************)
(* SpecUnspecified: the same value handed to convert_value_type, or, with  *)
(* a quality and a timestamp, to convert_qualified_value_type.             *)
(***************************************************************************)
InitUnspecified ==
    /\ value \in ValueSamples(1)
    /\ qvalue \in {DynamicQualifiedValue(value, q, ts) :
                      q \in SignalQuality, ts \in 0..MaxTime}
    /\ target_type \in ValueType
    /\ converted = NoValue
    /\ qconverted = NoQualified
    /\ IdleCompat
    /\ IdleStruct
    /\ IdleThreshold
    /\ IdleTags
    /\ IdleClock
    /\ pc = "start"

NextUnspecified == ConvertValueType \/ ConvertQualifiedValueType

SpecUnspecified == InitUnspecified /\ [][NextUnspecified]_vars

\* C30: convert_value_type(v, UNSPECIFIED) returns the empty value for every
\* non-empty v, and convert_qualified_value_type of a VALID non-empty q to
\* UNSPECIFIED returns the empty value with quality INVALID and q's timestamp.
C30_UnspecifiedTargetFails ==
    (target_type = "UNSPECIFIED" /\ ~is_empty(value))
    => /\ Returned => converted = Monostate
       /\ (QReturned /\ qvalue.quality = "VALID")
             => qconverted = DynamicQualifiedValue(Monostate, "INVALID",
                                                   qvalue.timestamp)

\* a VALID string was converted to UNSPECIFIED and came back empty and INVALID
C30_Witness ==
    /\ QReturned
    /\ target_type = "UNSPECIFIED"
    /\ qvalue.value = Val("string", "a")
    /\ qvalue.quality = "VALID"
    /\ qconverted.quality = "INVALID"
    /\ is_empty(qconverted.value)

(***************************************************************************)
(* SpecSiblings: one call of validate_struct on object 1, which may hold   *)
(* object 2 in its field Address and object 3 in its field Receiver.       *)
(***************************************************************************)
SiblingKinds(type_name) ==
    IF type_name = "DeliveryInfo"
    THEN [Address |-> {FieldDefinition("Address", "STRUCT", Nullopt, "Position")},
          Priority |-> {},
          Receiver |-> {FieldDefinition("Receiver", "STRING", Nullopt, ""),
                        FieldDefinition("Receiver", "STRUCT", Nullopt, "Position")}]
    ELSE [Address |-> {FieldDefinition("Address", "STRING", Nullopt, "")},
          Priority |-> {},
          Receiver |-> {}]

SiblingDefinitionsOf(type_name) ==
    {[StructDefinition(type_name) EXCEPT !.fields = Picked(f)] :
        f \in Picks(SiblingKinds(type_name))}

SiblingRegistrySamples ==
    {Picked(f) : f \in Picks([n \in TypeNames |-> SiblingDefinitionsOf(n)])}

\* the values set_field may have stored under each field name of object h
SiblingValues(h) ==
    IF h = 1
    THEN [Address |-> {Val(StructAlt, 2)},
          Priority |-> {Val("int32_t", <<0, 0>>)},
          Receiver |-> {Val("string", "a"), Val("int32_t", <<0, 0>>),
                        Val(StructAlt, 3)}]
    ELSE [Address |-> {Val("string", "a")},
          Priority |-> {Val("int32_t", <<0, 0>>)},
          Receiver |-> {}]

SiblingInstancesOf(h) ==
    {StructValue(n, Picked(f)) : n \in TypeNames, f \in Picks(SiblingValues(h))}

SiblingHeapSamples ==
    {<<a, b, c>> : a \in SiblingInstancesOf(1), b \in SiblingInstancesOf(2),
                   c \in SiblingInstancesOf(3)}

InitSiblings ==
    /\ structs_ \in SiblingRegistrySamples
    /\ heap \in SiblingHeapSamples
    /\ call = [op |-> "none"]
    /\ IdleConv
    /\ IdleCompat
    /\ IdleThreshold
    /\ IdleTags
    /\ IdleClock
    /\ pc = "start"

SpecSiblings == InitSiblings /\ [][NextValidate]_vars

\* what the strict and the lax validate_struct return for the instance validated
StrictResult == validate_struct(heap, call.value, structs_, TRUE, MaxDepth)
LaxResult == validate_struct(heap, call.value, structs_, FALSE, MaxDepth)

\* C29 as stated: when the strict validate_struct returns no error the lax one
\* returns none, and when the lax one returns an error the strict one returns
\* the same error.
C29_StrictImpliesLax ==
    Validated
    => /\ ~StrictResult.has_value => ~LaxResult.has_value
       /\ LaxResult.has_value => StrictResult = LaxResult

\* the last diagnostic of a chain of nested ones is that of an extra field
RECURSIVE EndsInExtraField(_)
EndsInExtraField(msg) ==
    IF Len(msg) > 3 /\ msg[1] = "Nested struct field '"
    THEN EndsInExtraField(SubSeq(msg, 4, Len(msg)))
    ELSE Len(msg) > 0 /\ msg[1] = "Extra field '"

\* C29, amended: when the strict validate_struct returns no error the lax one
\* returns none; when the lax one returns an error the strict one returns an
\* error too, the same one unless a struct nested in a field visited before
\* the failing one has an undeclared field, which the strict call then reports
\* as a nested failure.
C29_StrictImpliesLaxUpToNestedExtras ==
    Validated
    => /\ ~StrictResult.has_value => ~LaxResult.has_value
       /\ LaxResult.has_value
             => /\ StrictResult.has_value
                /\ \/ StrictResult = LaxResult
                   \/ /\ StrictResult.value[1] = "Nested struct field '"
                      /\ EndsInExtraField(StrictResult.value)

\* the lax call reported a missing field and the strict call the extra field
\* of the struct nested in the field before it
C29_Witness ==
    /\ Validated
    /\ call.strict
    /\ call.result.has_value
    /\ call.result.value[1] = "Nested struct field '"
    /\ call.result.value[2] = "Address"
    /\ LaxResult.has_value
    /\ LaxResult.value[1] = "Required field '"

(***************************************************************************)
(* The registry over any sequence of register_struct and clear             *)
(* (SpecRegistry).                                                         *)
(***************************************************************************)
\* the calls of register_struct for type_name that returned true since the
\* last clear, as indices of call.registered
Successful(type_name) ==
    {i \in 1..Len(call.registered) : call.registered[i].type_name = type_name}

FirstSuccessful(type_name) ==
    call.registered[CHOOSE i \in Successful(type_name) :
                        \A j \in Successful(type_name) : i <= j]

RegistryState ==
    /\ \A n \in DOMAIN structs_ : structs_[n].type_name = n
    /\ \A n \in TypeNames :
          /\ has_struct(structs_, n) <=> get_struct(structs_, n) # Nullopt
          /\ has_struct(structs_, n) <=> Successful(n) # {}
          /\ has_struct(structs_, n)
                => get_struct(structs_, n) = Some(FirstSuccessful(n))

RegistryStep ==
    /\ call'.op = "clear" => structs_' = EmptyMap
    /\ (call.op = "clear" /\ call'.op = "register_struct")
          => /\ call'.result = TRUE
             /\ get_struct(structs_', call'.definition.type_name)
                    = Some(call'.definition)

\* C27: over any sequence of register_struct and clear, every key of the
\* registry is the type name of its definition; has_struct(n) holds exactly
\* when get_struct(n) is non-null, exactly when a register_struct of n has
\* returned true since the last clear, and get_struct(n) is then the definition
\* of the first such call; clear leaves the registry empty and every name
\* registrable again.
C27_RegistryInvariant == []RegistryState /\ [][RegistryStep]_vars

\* two names registered, and a later register_struct of one of them with
\* another definition refused, the first definition kept
C27_Witness ==
    /\ call.op = "register_struct"
    /\ call.result = FALSE
    /\ Len(call.registered) = 2
    /\ has_struct(structs_, call.definition.type_name)
    /\ get_struct(structs_, call.definition.type_name) # Some(call.definition)

(***************************************************************************)
(* value_type_to_string and value_type_from_string (value.cpp).  A          *)
(* std::string is the sequence of its characters.                          *)
(***************************************************************************)
LowerCase ==
    <<"a", "b", "c", "d", "e", "f", "g", "h", "i", "j", "k", "l", "m", "n",
      "o", "p", "q", "r", "s", "t", "u", "v", "w", "x", "y", "z">>
UpperCase ==
    <<"A", "B", "C", "D", "E", "F", "G", "H", "I", "J", "K", "L", "M", "N",
      "O", "P", "Q", "R", "S", "T", "U", "V", "W", "X", "Y", "Z">>

\* std::toupper in the "C" locale
toupper(c) ==
    IF \E i \in 1..26 : LowerCase[i] = c
    THEN UpperCase[CHOOSE i \in 1..26 : LowerCase[i] = c]
    ELSE c

value_type_to_string(type) ==
    CASE type = "UNSPECIFIED" -> <<"U", "N", "S", "P", "E", "C", "I", "F", "I", "E", "D">>
      [] type = "STRING" -> <<"S", "T", "R", "I", "N", "G">>
      [] type = "BOOL" -> <<"B", "O", "O", "L">>
      [] type = "INT8" -> <<"I", "N", "T", "8">>
      [] type = "INT16" -> <<"I", "N", "T", "1", "6">>
      [] type = "INT32" -> <<"I", "N", "T", "3", "2">>
      [] type = "INT64" -> <<"I", "N", "T", "6", "4">>
      [] type = "UINT8" -> <<"U", "I", "N", "T", "8">>
      [] type = "UINT16" -> <<"U", "I", "N", "T", "1", "6">>
      [] type = "UINT32" -> <<"U", "I", "N", "T", "3", "2">>
      [] type = "UINT64" -> <<"U", "I", "N", "T", "6", "4">>
      [] type = "FLOAT" -> <<"F", "L", "O", "A", "T">>
      [] type = "DOUBLE" -> <<"D", "O", "U", "B", "L", "E">>
      [] type = "STRING_ARRAY" -> <<"S", "T", "R", "I", "N", "G", "_", "A", "R", "R", "A", "Y">>
      [] type = "BOOL_ARRAY" -> <<"B", "O", "O", "L", "_", "A", "R", "R", "A", "Y">>
      [] type = "INT8_ARRAY" -> <<"I", "N", "T", "8", "_", "A", "R", "R", "A", "Y">>
      [] type = "INT16_ARRAY" -> <<"I", "N", "T", "1", "6", "_", "A", "R", "R", "A", "Y">>
      [] type = "INT32_ARRAY" -> <<"I", "N", "T", "3", "2", "_", "A", "R", "R", "A", "Y">>
      [] type = "INT64_ARRAY" -> <<"I", "N", "T", "6", "4", "_", "A", "R", "R", "A", "Y">>
      [] type = "UINT8_ARRAY" -> <<"U", "I", "N", "T", "8", "_", "A", "R", "R", "A", "Y">>
      [] type = "UINT16_ARRAY" -> <<"U", "I", "N", "T", "1", "6", "_", "A", "R", "R", "A", "Y">>
      [] type = "UINT32_ARRAY" -> <<"U", "I", "N", "T", "3", "2", "_", "A", "R", "R", "A", "Y">>
      [] type = "UINT64_ARRAY" -> <<"U", "I", "N", "T", "6", "4", "_", "A", "R", "R", "A", "Y">>
      [] type = "FLOAT_ARRAY" -> <<"F", "L", "O", "A", "T", "_", "A", "R", "R", "A", "Y">>
      [] type = "DOUBLE_ARRAY" -> <<"D", "O", "U", "B", "L", "E", "_", "A", "R", "R", "A", "Y">>
      [] type = "STRUCT" -> <<"S", "T", "R", "U", "C", "T">>
      [] type = "STRUCT_ARRAY" -> <<"S", "T", "R", "U", "C", "T", "_", "A", "R", "R", "A", "Y">>
      [] OTHER -> <<"U", "N", "K", "N", "O", "W", "N">>

\* value_type_from_string comparing the string as it was given
value_type_from_string_CaseSensitive(s) ==
    LET upper == s
    IN
        IF upper = <<"S", "T", "R", "I", "N", "G">>
            THEN Some("STRING")
        ELSE IF \/ upper = <<"B", "O", "O", "L">>
            \/ upper = <<"B", "O", "O", "L", "E", "A", "N">>
            THEN Some("BOOL")
        ELSE IF upper = <<"I", "N", "T", "8">>
            THEN Some("INT8")
        ELSE IF upper = <<"I", "N", "T", "1", "6">>
            THEN Some("INT16")
        ELSE IF \/ upper = <<"I", "N", "T", "3", "2">>
            \/ upper = <<"I", "N", "T">>
            THEN Some("INT32")
        ELSE IF \/ upper = <<"I", "N", "T", "6", "4">>
            \/ upper = <<"L", "O", "N", "G">>
            THEN Some("INT64")
        ELSE IF upper = <<"U", "I", "N", "T", "8">>
            THEN Some("UINT8")
        ELSE IF upper = <<"U", "I", "N", "T", "1", "6">>
            THEN Some("UINT16")
        ELSE IF \/ upper = <<"U", "I", "N", "T", "3", "2">>
            \/ upper = <<"U", "N", "S", "I", "G", "N", "E", "D">>
            THEN Some("UINT32")
        ELSE IF \/ upper = <<"U", "I", "N", "T", "6", "4">>
            \/ upper = <<"U", "L", "O", "N", "G">>
            THEN Some("UINT64")
        ELSE IF upper = <<"F", "L", "O", "A", "T">>
            THEN Some("FLOAT")
        ELSE IF upper = <<"D", "O", "U", "B", "L", "E">>
            THEN Some("DOUBLE")
        ELSE IF \/ upper = <<"S", "T", "R", "I", "N", "G", "_", "A", "R", "R", "A", "Y">>
            \/ upper = <<"S", "T", "R", "I", "N", "G", "[", "]">>
            THEN Some("STRING_ARRAY")
        ELSE IF \/ upper = <<"B", "O", "O", "L", "_", "A", "R", "R", "A", "Y">>
            \/ upper = <<"B", "O", "O", "L", "[", "]">>
            \/ upper = <<"B", "O", "O", "L", "E", "A", "N", "[", "]">>
            THEN Some("BOOL_ARRAY")
        ELSE IF \/ upper = <<"I", "N", "T", "8", "_", "A", "R", "R", "A", "Y">>
            \/ upper = <<"I", "N", "T", "8", "[", "]">>
            THEN Some("INT8_ARRAY")
        ELSE IF \/ upper = <<"I", "N", "T", "1", "6", "_", "A", "R", "R", "A", "Y">>
            \/ upper = <<"I", "N", "T", "1", "6", "[", "]">>
            THEN Some("INT16_ARRAY")
        ELSE IF \/ upper = <<"I", "N", "T", "3", "2", "_", "A", "R", "R", "A", "Y">>
            \/ upper = <<"I", "N", "T", "3", "2", "[", "]">>
            \/ upper = <<"I", "N", "T", "[", "]">>
            THEN Some("INT32_ARRAY")
        ELSE IF \/ upper = <<"I", "N", "T", "6", "4", "_", "A", "R", "R", "A", "Y">>
            \/ upper = <<"I", "N", "T", "6", "4", "[", "]">>
            \/ upper = <<"L", "O", "N", "G", "[", "]">>
            THEN Some("INT64_ARRAY")
        ELSE IF \/ upper = <<"U", "I", "N", "T", "8", "_", "A", "R", "R", "A", "Y">>
            \/ upper = <<"U", "I", "N", "T", "8", "[", "]">>
            THEN Some("UINT8_ARRAY")
        ELSE IF \/ upper = <<"U", "I", "N", "T", "1", "6", "_", "A", "R", "R", "A", "Y">>
            \/ upper = <<"U", "I", "N", "T", "1", "6", "[", "]">>
            THEN Some("UINT16_ARRAY")
        ELSE IF \/ upper = <<"U", "I", "N", "T", "3", "2", "_", "A", "R", "R", "A", "Y">>
            \/ upper = <<"U", "I", "N", "T", "3", "2", "[", "]">>
            THEN Some("UINT32_ARRAY")
        ELSE IF \/ upper = <<"U", "I", "N", "T", "6", "4", "_", "A", "R", "R", "A", "Y">>
            \/ upper = <<"U", "I", "N", "T", "6", "4", "[", "]">>
            THEN Some("UINT64_ARRAY")
        ELSE IF \/ upper = <<"F", "L", "O", "A", "T", "_", "A", "R", "R", "A", "Y">>
            \/ upper = <<"F", "L", "O", "A", "T", "[", "]">>
            THEN Some("FLOAT_ARRAY")
        ELSE IF \/ upper = <<"D", "O", "U", "B", "L", "E", "_", "A", "R", "R", "A", "Y">>
            \/ upper = <<"D", "O", "U", "B", "L", "E", "[", "]">>
            THEN Some("DOUBLE_ARRAY")
        ELSE IF upper = <<"S", "T", "R", "U", "C", "T">>
            THEN Some("STRUCT")
        ELSE IF \/ upper = <<"S", "T", "R", "U", "C", "T", "_", "A", "R", "R", "A", "Y">>
            \/ upper = <<"S", "T", "R", "U", "C", "T", "[", "]">>
            THEN Some("STRUCT_ARRAY")
        ELSE Nullopt

value_type_from_string(s) ==
    \* Convert to uppercase for case-insensitive matching
    LET upper == [i \in DOMAIN s |-> toupper(s[i])]
    IN
        IF upper = <<"S", "T", "R", "I", "N", "G">>
            THEN Some("STRING")
        ELSE IF \/ upper = <<"B", "O", "O", "L">>
            \/ upper = <<"B", "O", "O", "L", "E", "A", "N">>
            THEN Some("BOOL")
        ELSE IF upper = <<"I", "N", "T", "8">>
            THEN Some("INT8")
        ELSE IF upper = <<"I", "N", "T", "1", "6">>
            THEN Some("INT16")
        ELSE IF \/ upper = <<"I", "N", "T", "3", "2">>
            \/ upper = <<"I", "N", "T">>
            THEN Some("INT32")
        ELSE IF \/ upper = <<"I", "N", "T", "6", "4">>
            \/ upper = <<"L", "O", "N", "G">>
            THEN Some("INT64")
        ELSE IF upper = <<"U", "I", "N", "T", "8">>
            THEN Some("UINT8")
        ELSE IF upper = <<"U", "I", "N", "T", "1", "6">>
            THEN Some("UINT16")
        ELSE IF \/ upper = <<"U", "I", "N", "T", "3", "2">>
            \/ upper = <<"U", "N", "S", "I", "G", "N", "E", "D">>
            THEN Some("UINT32")
        ELSE IF \/ upper = <<"U", "I", "N", "T", "6", "4">>
            \/ upper = <<"U", "L", "O", "N", "G">>
            THEN Some("UINT64")
        ELSE IF upper = <<"F", "L", "O", "A", "T">>
            THEN Some("FLOAT")
        ELSE IF upper = <<"D", "O", "U", "B", "L", "E">>
            THEN Some("DOUBLE")
        ELSE IF \/ upper = <<"S", "T", "R", "I", "N", "G", "_", "A", "R", "R", "A", "Y">>
            \/ upper = <<"S", "T", "R", "I", "N", "G", "[", "]">>
            THEN Some("STRING_ARRAY")
        ELSE IF \/ upper = <<"B", "O", "O", "L", "_", "A", "R", "R", "A", "Y">>
            \/ upper = <<"B", "O", "O", "L", "[", "]">>
            \/ upper = <<"B", "O", "O", "L", "E", "A", "N", "[", "]">>
            THEN Some("BOOL_ARRAY")
        ELSE IF \/ upper = <<"I", "N", "T", "8", "_", "A", "R", "R", "A", "Y">>
            \/ upper = <<"I", "N", "T", "8", "[", "]">>
            THEN Some("INT8_ARRAY")
        ELSE IF \/ upper = <<"I", "N", "T", "1", "6", "_", "A", "R", "R", "A", "Y">>
            \/ upper = <<"I", "N", "T", "1", "6", "[", "]">>
            THEN Some("INT16_ARRAY")
        ELSE IF \/ upper = <<"I", "N", "T", "3", "2", "_", "A", "R", "R", "A", "Y">>
            \/ upper = <<"I", "N", "T", "3", "2", "[", "]">>
            \/ upper = <<"I", "N", "T", "[", "]">>
            THEN Some("INT32_ARRAY")
        ELSE IF \/ upper = <<"I", "N", "T", "6", "4", "_", "A", "R", "R", "A", "Y">>
            \/ upper = <<"I", "N", "T", "6", "4", "[", "]">>
            \/ upper = <<"L", "O", "N", "G", "[", "]">>
            THEN Some("INT64_ARRAY")
        ELSE IF \/ upper = <<"U", "I", "N", "T", "8", "_", "A", "R", "R", "A", "Y">>
            \/ upper = <<"U", "I", "N", "T", "8", "[", "]">>
            THEN Some("UINT8_ARRAY")
        ELSE IF \/ upper = <<"U", "I", "N", "T", "1", "6", "_", "A", "R", "R", "A", "Y">>
            \/ upper = <<"U", "I", "N", "T", "1", "6", "[", "]">>
            THEN Some("UINT16_ARRAY")
        ELSE IF \/ upper = <<"U", "I", "N", "T", "3", "2", "_", "A", "R", "R", "A", "Y">>
            \/ upper = <<"U", "I", "N", "T", "3", "2", "[", "]">>
            THEN Some("UINT32_ARRAY")
        ELSE IF \/ upper = <<"U", "I", "N", "T", "6", "4", "_", "A", "R", "R", "A", "Y">>
            \/ upper = <<"U", "I", "N", "T", "6", "4", "[", "]">>
            THEN Some("UINT64_ARRAY")
        ELSE IF \/ upper = <<"F", "L", "O", "A", "T", "_", "A", "R", "R", "A", "Y">>
            \/ upper = <<"F", "L", "O", "A", "T", "[", "]">>
            THEN Some("FLOAT_ARRAY")
        ELSE IF \/ upper = <<"D", "O", "U", "B", "L", "E", "_", "A", "R", "R", "A", "Y">>
            \/ upper = <<"D", "O", "U", "B", "L", "E", "[", "]">>
            THEN Some("DOUBLE_ARRAY")
        ELSE IF upper = <<"S", "T", "R", "U", "C", "T">>
            THEN Some("STRUCT")
        ELSE IF \/ upper = <<"S", "T", "R", "U", "C", "T", "_", "A", "R", "R", "A", "Y">>
            \/ upper = <<"S", "T", "R", "U", "C", "T", "[", "]">>
            THEN Some("STRUCT_ARRAY")
        ELSE Nullopt

(***************************************************************************)
(* SpecTags: value_type_to_string on a tag, or a string of the caller's,   *)
(* letters of it changed to the other case, then value_type_from_string.   *)
(***************************************************************************)
StringSamples ==
    {<<>>,
     <<"I", "N", "V", "A", "L", "I", "D">>,
     <<"U", "N", "S", "P", "E", "C", "I", "F", "I", "E", "D">>,
     <<"U", "N", "K", "N", "O", "W", "N">>,
     <<"I", "N", "T", "3", "2", " ">>,
     <<"[", "]">>,
     <<"I", "N", "T", "_", "A", "R", "R", "A", "Y">>,
     <<"I", "N", "T", "1", "2", "8">>,
     <<"B", "O", "O", "L", "E", "A", "N">>,
     <<"I", "N", "T">>,
     <<"L", "O", "N", "G">>,
     <<"U", "N", "S", "I", "G", "N", "E", "D">>,
     <<"U", "L", "O", "N", "G">>,
     <<"B", "O", "O", "L", "E", "A", "N", "[", "]">>,
     <<"I", "N", "T", "[", "]">>,
     <<"L", "O", "N", "G", "[", "]">>,
     <<"U", "N", "S", "I", "G", "N", "E", "D", "[", "]">>,
     <<"U", "L", "O", "N", "G", "[", "]">>,
     <<"S", "T", "R", "I", "N", "G", "[", "]">>,
     <<"B", "O", "O", "L", "[", "]">>,
     <<"I", "N", "T", "8", "[", "]">>,
     <<"I", "N", "T", "1", "6", "[", "]">>,
     <<"I", "N", "T", "3", "2", "[", "]">>,
     <<"I", "N", "T", "6", "4", "[", "]">>,
     <<"U", "I", "N", "T", "8", "[", "]">>,
     <<"U", "I", "N", "T", "1", "6", "[", "]">>,
     <<"U", "I", "N", "T", "3", "2", "[", "]">>,
     <<"U", "I", "N", "T", "6", "4", "[", "]">>,
     <<"F", "L", "O", "A", "T", "[", "]">>,
     <<"D", "O", "U", "B", "L", "E", "[", "]">>,
     <<"S", "T", "R", "U", "C", "T", "[", "]">>,
     <<"f", "l", "o", "a", "t", "[", "]">>,
     <<"i", "n", "t", "8", "_", "a", "r", "r", "a", "y">>,
     <<"B", "o", "o", "l">>}

InitTags ==
    /\ \/ tagA \in ValueType /\ str = <<>>
       \/ tagA = "UNSPECIFIED" /\ str \in StringSamples
    /\ tagB = "UNSPECIFIED"
    /\ tagC = "UNSPECIFIED"
    /\ compatible = NoCompat
    /\ parsed = Nullopt
    /\ IdleConv
    /\ IdleStruct
    /\ IdleThreshold
    /\ IdleClock
    /\ pc = "start"

ValueTypeToString ==
    /\ pc = "start"
    /\ str = <<>>
    /\ str' = value_type_to_string(tagA)
    /\ pc' = "value_type_to_string"
    /\ UNCHANGED <<parsed, compatVars, convVars, structVars, thrVars, clockVars>>

\* the letter c in the other case
SwapCase(c) ==
    IF \E i \in 1..26 : LowerCase[i] = c
    THEN UpperCase[CHOOSE i \in 1..26 : LowerCase[i] = c]
    ELSE IF \E i \in 1..26 : UpperCase[i] = c
    THEN LowerCase[CHOOSE i \in 1..26 : UpperCase[i] = c]
    ELSE c

\* the caller rewrites one letter of the string in the other case
ChangeCase ==
    /\ pc # "value_type_from_string"
    /\ \E i \in DOMAIN str :
          /\ SwapCase(str[i]) # str[i]
          /\ str' = [str EXCEPT ![i] = SwapCase(str[i])]
    /\ UNCHANGED <<parsed, pc, compatVars, convVars, structVars, thrVars, clockVars>>

ValueTypeFromString ==
    /\ pc # "value_type_from_string"
    /\ parsed' = value_type_from_string(str)
    /\ pc' = "value_type_from_string"
    /\ UNCHANGED <<str, compatVars, convVars, structVars, thrVars, clockVars>>

NextTags == ValueTypeToString \/ ChangeCase \/ ValueTypeFromString

SpecTags == InitTags /\ [][NextTags]_vars

TagsReturned == pc = "value_type_from_string"

\* s is t with some of its letters in the other case
CaseVariant(s, t) ==
    /\ Len(s) = Len(t)
    /\ \A i \in 1..Len(t) : s[i] = t[i] \/ s[i] = SwapCase(t[i])

\* C25: for every tag t other than UNSPECIFIED, value_type_from_string of
\* value_type_to_string(t) is t, whatever the case of its letters.
C25_TagRoundTrip ==
    (TagsReturned /\ tagA # "UNSPECIFIED"
        /\ CaseVariant(str, value_type_to_string(tagA)))
    => parsed = Some(tagA)

\* "Float_Array" parsed back to FLOAT_ARRAY
C25_Witness ==
    /\ TagsReturned
    /\ tagA = "FLOAT_ARRAY"
    /\ str = <<"F", "l", "o", "a", "t", "_", "A", "r", "r", "a", "y">>
    /\ parsed = Some("FLOAT_ARRAY")

\* the aliases of a scalar tag
ScalarAliases(t) ==
    CASE t = "BOOL" -> {<<"B", "O", "O", "L", "E", "A", "N">>}
      [] t = "INT32" -> {<<"I", "N", "T">>}
      [] t = "INT64" -> {<<"L", "O", "N", "G">>}
      [] t = "UINT32" -> {<<"U", "N", "S", "I", "G", "N", "E", "D">>}
      [] t = "UINT64" -> {<<"U", "L", "O", "N", "G">>}
      [] OTHER -> {}

\* the scalar tag whose name an array tag carries before _ARRAY
ElementTag(t) ==
    CHOOSE e \in ScalarTags :
        value_type_to_string(e) \o <<"_", "A", "R", "R", "A", "Y">> = value_type_to_string(t)

\* the strings to be accepted for a tag, case apart
AcceptedNames(t) ==
    IF t \in ArrayTags
    THEN {value_type_to_string(t)}
            \cup {n \o <<"[", "]">> :
                    n \in {value_type_to_string(ElementTag(t))}
                              \cup ScalarAliases(ElementTag(t))}
    ELSE {value_type_to_string(t)} \cup ScalarAliases(t)

Accepts(t, s) == \E n \in AcceptedNames(t) : CaseVariant(s, n)

\* C26: value_type_from_string accepts, in any letter case, the canonical
\* names, the aliases BOOLEAN, INT, LONG, UNSIGNED, ULONG and, for every array
\* tag, <T>[] with <T> the element's canonical name or an alias of it; every
\* other string yields no tag.
C26_AliasesAccepted ==
    TagsReturned
    => /\ \A t \in ValueType \ {"UNSPECIFIED"} :
             Accepts(t, str) => parsed = Some(t)
       /\ (\A t \in ValueType \ {"UNSPECIFIED"} : ~Accepts(t, str))
             => parsed = Nullopt

\* "UNSIGNED[]" was parsed
C26_Witness ==
    /\ TagsReturned
    /\ str = <<"U", "N", "S", "I", "G", "N", "E", "D", "[", "]">>

(***************************************************************************)
(* age() of QualifiedValue<T> and DynamicQualifiedValue (quality.hpp): the *)
(* same two lines in both.  A time_point of system_clock counts            *)
(* nanoseconds; duration_cast to milliseconds truncates toward zero.       *)
(***************************************************************************)
NanosPerMilli == 1000000

duration_cast_milliseconds(d) ==
    IF d >= 0 THEN d \div NanosPerMilli ELSE -((-d) \div NanosPerMilli)

\* age(): `clock` is what system_clock::now() returns inside the call
age(clock, timestamp) == duration_cast_milliseconds(clock - timestamp)

\* the clock readings and explicit timestamps enumerated: whole milliseconds up
\* to MaxTime, one nanosecond past them and one nanosecond before the next
ClockSamples ==
    {k * NanosPerMilli + r : k \in 0..MaxTime, r \in {0, 1, NanosPerMilli - 1}}

(***************************************************************************)
(* SpecAge: a DynamicQualifiedValue constructed with an explicit           *)
(* timestamp, a system clock that may be set to any reading, and age().    *)
(***************************************************************************)
InitAge ==
    /\ value = NoValue
    /\ target_type = "UNSPECIFIED"
    /\ converted = NoValue
    /\ qvalue \in {DynamicQualifiedValue(v, q, ts) :
                      v \in {Monostate, Val("string", "a")},
                      q \in SignalQuality, ts \in ClockSamples}
    /\ qconverted = NoQualified
    /\ now \in ClockSamples
    /\ aged = 0
    /\ IdleCompat
    /\ IdleStruct
    /\ IdleThreshold
    /\ IdleTags
    /\ pc = "start"

\* system_clock is not steady: it may be adjusted forward or back
SetClock ==
    /\ \E t \in ClockSamples : t # now /\ now' = t
    /\ pc' = "start"
    /\ UNCHANGED <<aged, convVars, compatVars, structVars, thrVars, tagVars>>

Age ==
    /\ aged' = age(now, qvalue.timestamp)
    /\ pc' = "age"
    /\ UNCHANGED <<now, convVars, compatVars, structVars, thrVars, tagVars>>

NextAge == SetClock \/ Age

SpecAge == InitAge /\ [][NextAge]_vars

AgeReturned == pc = "age"

\* C22: age() is now minus timestamp in milliseconds, saturated at zero: it
\* is never negative, also when the timestamp is later than the clock reading.
C22_AgeSaturates ==
    AgeReturned
    => /\ aged >= 0
       /\ aged = IF now >= qvalue.timestamp
                 THEN (now - qvalue.timestamp) \div NanosPerMilli
                 ELSE 0

\* age() returned a negative duration for a timestamp later than the clock
C22_Witness ==
    /\ AgeReturned
    /\ qvalue.timestamp > now
    /\ aged < 0

(***************************************************************************)
(* SpecCyclic: one call of validate_struct on object 1 of a heap of two    *)
(* objects whose STRUCT fields hold handles to either object: set_field    *)
(* takes any shared_ptr<StructValue>, one to an enclosing struct included. *)
(***************************************************************************)
CyclicKinds(type_name) ==
    [Address |-> {FieldDefinition("Address", "STRING", Nullopt, ""),
                  FieldDefinition("Address", "STRUCT", Nullopt, "Position")},
     Priority |-> {},
     Receiver |-> {FieldDefinition("Receiver", "STRUCT", Nullopt, "DeliveryInfo")}]

CyclicDefinitionsOf(type_name) ==
    {[StructDefinition(type_name) EXCEPT !.fields = Picked(f)] :
        f \in Picks(CyclicKinds(type_name))}

CyclicRegistrySamples ==
    {Picked(f) : f \in Picks([n \in TypeNames |-> CyclicDefinitionsOf(n)])}

CyclicValues(h) ==
    [Address |-> {Val("string", "a"), Val(StructAlt, 1), Val(StructAlt, 2)},
     Priority |-> {},
     Receiver |-> {Val(StructAlt, 1), Val(StructAlt, 2)}]

CyclicInstancesOf(h) ==
    {StructValue(n, Picked(f)) : n \in TypeNames, f \in Picks(CyclicValues(h))}

CyclicHeapSamples ==
    {<<a, b>> : a \in CyclicInstancesOf(1), b \in CyclicInstancesOf(2)}

InitCyclic ==
    /\ structs_ \in CyclicRegistrySamples
    /\ heap \in CyclicHeapSamples
    /\ call = [op |-> "none"]
    /\ IdleConv
    /\ IdleCompat
    /\ IdleThreshold
    /\ IdleTags
    /\ IdleClock
    /\ pc = "start"

SpecCyclic == InitCyclic /\ [][NextValidate]_vars

\* the objects the STRUCT-valued fields of object h hold handles to
Children(hp, h) ==
    {hp[h].fields[n].val :
        n \in {m \in DOMAIN hp[h].fields :
                  hp[h].fields[m].alt = StructAlt /\ hp[h].fields[m].val # 0}}

\* object h is reached from itself through one or two handles
OnCycle(hp, h) ==
    \/ h \in Children(hp, h)
    \/ \E k \in Children(hp, h) : h \in Children(hp, k)

\* C23: validate_struct is total: for every registry and every instance, one
\* whose nested handles are shared or lead back to an enclosing struct
\* included, the call returns, either no error or one diagnostic.
C23_ValidateTotal ==
    Validated
    => /\ Returns(call.result)
       /\ call.result.has_value => Len(call.result.value) > 0

\* with no object on a cycle the call returns, shared handles or not
AcyclicReturns ==
    (Validated /\ ~OnCycle(heap, 1) /\ ~OnCycle(heap, 2)) => Returns(call.result)

\* the validated struct is reached from itself and the call did not return
C23_Witness ==
    /\ Validated
    /\ OnCycle(heap, 1)
    /\ ~Returns(call.result)

(***************************************************************************)
(* SpecShared: instances made by create_default_struct, and set_field      *)
(* called on an instance or on the struct the instance's field Receiver    *)
(* holds a handle to.  Object 1 is the struct a default may hold; the      *)
(* instances are the objects after it.                                     *)
(***************************************************************************)
\* instances created in one behaviour
MaxInstances == 2

Instances(hp) == 2..Len(hp)

CreateInstance ==
    /\ Len(heap) < 1 + MaxInstances
    /\ \E type_name \in TypeNames :
          LET r == create_default_struct(type_name, structs_)
          IN  /\ r.has_value
              /\ call' = [op |-> "create_default_struct", type_name |-> type_name,
                          result |-> r]
              /\ heap' = Append(heap, r.value)
    /\ pc' = "create_default_struct"
    /\ UNCHANGED <<structs_, convVars, compatVars, thrVars, tagVars, clockVars>>

\* what callers store
StoredSamples == {Val("string", "b")}

\* instance.set_field(field_name, v)
SetField ==
    /\ \E i \in Instances(heap), v \in StoredSamples :
          /\ heap' = [heap EXCEPT ![i] = set_field(@, "Address", v)]
          /\ call' = [op |-> "set_field", instance |-> i, object |-> i,
                      field_name |-> "Address", value |-> v]
    /\ pc' = "set_field"
    /\ UNCHANGED <<structs_, convVars, compatVars, thrVars, tagVars, clockVars>>

\* the object a field of sv holds a handle to, 0 when it holds none
Pointee(sv, field_name) ==
    IF has_field(sv, field_name)
       /\ get_field(sv, field_name).value.alt = StructAlt
    THEN get_field(sv, field_name).value.val
    ELSE 0

\* std::get<std::shared_ptr<StructValue>>(*instance.get_field("Receiver"))
\*     ->set_field(field_name, v)
SetNestedField ==
    /\ \E i \in Instances(heap), v \in StoredSamples :
          LET h == Pointee(heap[i], "Receiver")
          IN  /\ h # 0
              /\ heap' = [heap EXCEPT ![h] = set_field(@, "Address", v)]
              /\ call' = [op |-> "set_field", instance |-> i, object |-> h,
                          field_name |-> "Address", value |-> v]
    /\ pc' = "set_field"
    /\ UNCHANGED <<structs_, convVars, compatVars, thrVars, tagVars, clockVars>>

NextShared == CreateInstance \/ SetField \/ SetNestedField

SpecShared == InitDefault /\ [][NextShared]_vars

\* a value as a reader sees it: a handle followed to the struct it refers to
Seen(hp, v) ==
    IF v.alt = StructAlt /\ v.val # 0 THEN hp[v.val] ELSE v

\* an instance as its reader sees it
InstanceSeen(hp, i) ==
    [type_name |-> hp[i].type_name,
     fields |-> [n \in DOMAIN hp[i].fields |-> Seen(hp, hp[i].fields[n])]]

\* the stored default values as a reader of the registry sees them
DefaultsSeen(hp, registry) ==
    [t \in DOMAIN registry |->
        [n \in {m \in DOMAIN registry[t].fields :
                   registry[t].fields[m].default_value.has_value} |->
            Seen(hp, registry[t].fields[n].default_value.value)]]

\* C28 as stated: a set_field made through an instance that
\* create_default_struct returned, on the instance or on a struct nested in
\* it, is seen neither through the stored defaults of the registry nor
\* through another instance, whether created before or after it.
C28_InstancesIndependent ==
    [][call'.op = "set_field"
          => /\ DefaultsSeen(heap', structs_') = DefaultsSeen(heap, structs_)
             /\ \A j \in Instances(heap) \ {call'.instance} :
                   InstanceSeen(heap', j) = InstanceSeen(heap, j)
             /\ \A t \in DOMAIN structs_ :
                   create_default_struct(t, structs_').has_value
                   => InstanceSeen(Append(heap', create_default_struct(t, structs_').value),
                                   Len(heap') + 1)
                        = InstanceSeen(Append(heap, create_default_struct(t, structs_).value),
                                       Len(heap) + 1)
      ]_vars

\* C28, amended: a set_field on an instance itself is seen through no other
\* instance and not through the registry; a set_field on the struct which the
\* instance holds through a STRUCT-typed default is made on the one struct the
\* stored default and every instance of the definition share, and is seen
\* through all of them; no other object changes.
C28_NestedDefaultsShared ==
    [][call'.op = "set_field"
          => LET h == call'.object
             IN  /\ get_field(heap'[h], call'.field_name) = Some(call'.value)
                 /\ \A k \in 1..Len(heap) : k # h => heap'[k] = heap[k]
                 /\ structs_' = structs_
                 /\ h = call'.instance
                       => /\ DefaultsSeen(heap', structs_') = DefaultsSeen(heap, structs_)
                          /\ \A j \in Instances(heap) \ {h} :
                                InstanceSeen(heap', j) = InstanceSeen(heap, j)
                 /\ h # call'.instance
                       => /\ \A j \in Instances(heap) :
                                Pointee(heap[j], "Receiver") = h
                                => InstanceSeen(heap', j).fields["Receiver"] = heap'[h]
                          /\ \A t \in DOMAIN structs_ :
                                ("Receiver" \in DOMAIN structs_[t].fields
                                   /\ structs_[t].fields["Receiver"].default_value
                                        = Some(Val(StructAlt, h)))
                                => DefaultsSeen(heap', structs_')[t]["Receiver"] = heap'[h]
      ]_vars

\* set_field on the struct nested in the second instance changed the field
\* Receiver of the first instance and the stored default
C28_Witness ==
    /\ pc = "set_field"
    /\ call.instance = 3
    /\ call.object = 1
    /\ Pointee(heap[2], "Receiver") = 1
    /\ "DeliveryInfo" \in DOMAIN structs_
    /\ DefaultsSeen(heap, structs_)["DeliveryInfo"]["Receiver"]
           = StructValue("Position", Put(EmptyMap, "Address", Val("string", "b")))
    /\ InstanceSeen(heap, 2).fields["Receiver"]
           = StructValue("Position", Put(EmptyMap, "Address", Val("string", "b")))

(***************************************************************************)
(* SpecMonotone: the three change predicates on one pair of values, each   *)
(* at two thresholds; `threshold` holds the pair of thresholds and         *)
(* `changed` what each predicate returned at the first and at the second.  *)
(***************************************************************************)
\* a QualifiedValue<T> as the DynamicQualifiedValue holding the same payload
AsDynamic(t, q) ==
    DynamicQualifiedValue(IF q.value.has_value THEN Val(t, q.value.value)
                          ELSE Monostate,
                          q.quality, q.timestamp)

InitMonotone ==
    /\ T \in ThresholdTypes
    /\ old_val \in QualifiedSamples(T)
    /\ new_val \in QualifiedSamples(T)
    /\ threshold \in ThresholdSamples \X ThresholdSamples
    /\ changed = FALSE
    /\ IdleConv
    /\ IdleCompat
    /\ IdleStruct
    /\ IdleTags
    /\ IdleClock
    /\ pc = "start"

ChangedBeyondThresholds ==
    /\ pc = "start"
    /\ changed' =
          [qualified |->
              [i \in {1, 2} |->
                  qualified_value_changed_beyond_threshold(T, old_val, new_val,
                                                           threshold[i])],
           dynamic |->
              [i \in {1, 2} |->
                  dynamic_qualified_value_changed_beyond_threshold(
                      AsDynamic(T, old_val), AsDynamic(T, new_val), threshold[i])],
           value |->
              [i \in {1, 2} |->
                  value_changed_beyond_threshold(AsDynamic(T, old_val).value,
                                                 AsDynamic(T, new_val).value,
                                                 threshold[i])]]
    /\ pc' = "changed_beyond_thresholds"
    /\ UNCHANGED <<T, old_val, new_val, threshold, convVars, compatVars, structVars, tagVars, clockVars>>

NextMonotone == ChangedBeyondThresholds

SpecMonotone == InitMonotone /\ [][NextMonotone]_vars

MonotoneReturned == pc = "changed_beyond_thresholds"

\* 0 <= threshold[1] <= threshold[2]
Ordered(thr) == ~thr[1].neg /\ DoubleGe(thr[2], thr[1])

====
